---- MODULE Spec2Model ----
(***************************************************************************)
(* Model of MADS_system.cpp: the hash-linked ledger (Block, Blockchain),   *)
(* the entity store and the transaction pipeline of                        *)
(* ProductionPlanningSystem.                                               *)
(*                                                                         *)
(* Conventions of the model                                                *)
(*  - A std::string is held as the list of its '|'-separated segments,     *)
(*    which is what every deserialize() of the program recovers with       *)
(*    std::getline(ss, item, '|').  "A | B" is <<"A ", " B">>.             *)
(*  - Real-valued quantities (double) are fixed-point integers: money in   *)
(*    sen (1/100 RM), coordinates in 1/1000 degree, distances in metres.   *)
(*  - rand() is a deterministic generator: randState counts the hashes     *)
(*    drawn since srand(), modulo HashPeriod, and the hash drawn is named  *)
(*    after it, so that hashes drawn HashPeriod apart collide.             *)
(*  - The wall clock is the variable clock, advanced by Tick.              *)
(***************************************************************************)
EXTENDS Integers, Sequences, FiniteSets, TLC

VARIABLES products, suppliers, retailers, transporters, transactions,
          chain,
          nextProductId, nextSupplierId, nextRetailerId, nextTransporterId,
          nextTransactionId,
          randState, clock, disk, steps,
          op, args, ret, err

vars == <<products, suppliers, retailers, transporters, transactions, chain,
          nextProductId, nextSupplierId, nextRetailerId, nextTransporterId,
          nextTransactionId, randState, clock, disk, steps, op, args, ret, err>>

(***************************************************************************)
(* Bounds of the model                                                     *)
(***************************************************************************)
\* number of events explored in one run: calls from the menu that change
\* the system or its files, and minutes that pass
MaxOps == 2
\* period of the pseudo-random generator behind generateHash
HashPeriod == 2
\* number of lines of a blockchain.dat found at the start
MaxLines == 3

(***************************************************************************)
(* Program constants                                                       *)
(***************************************************************************)
\* PriceThresholdContract(4000.0), in sen
PriceCeiling == 400000
\* kilometres per degree in calculateDistance
KmPerDegree == 111

(***************************************************************************)
(* Utilities                                                               *)
(***************************************************************************)
Max(a, b) == IF a >= b THEN a ELSE b

Abs(a) == IF a >= 0 THEN a ELSE -a

\* int: 32 bits, two's complement
IntMax == 2147483647

IntMin == -IntMax - 1

\* operator+ of two int.  A sum outside the range of int is undefined
\* behaviour: a build either wraps it around, which is the value given here,
\* or traps, which ends the program and reaches no further state.
AddInt(a, b) ==
    IF b > 0 /\ a > IntMax - b THEN (a - IntMax - 1) + (b - IntMax - 1)
    ELSE IF b < 0 /\ a < IntMin - b THEN (a + IntMax + 1) + (b + IntMax + 1)
    ELSE a + b

\* unary operator- of an int; -INT_MIN is outside the range of int and wraps
\* around to INT_MIN
NegInt(a) == IF a = IntMin THEN IntMin ELSE -a

RECURSIVE SqrtSearch(_, _, _)
SqrtSearch(n, lo, hi) ==
    IF lo >= hi THEN lo
    ELSE LET mid == (lo + hi + 1) \div 2
         IN  IF mid * mid <= n THEN SqrtSearch(n, mid, hi)
                               ELSE SqrtSearch(n, lo, mid - 1)

\* sqrt() on the fixed-point grid: the integer part of the square root
ISqrt(n) == SqrtSearch(n, 0, 46340)

\* getCurrentTimestamp(): the wall clock as text
getCurrentTimestamp(now) == "T" \o ToString(now)

\* generateHash(): ten characters drawn from rand(); advances the generator
generateHash(rs) ==
    [hash |-> "h" \o ToString(rs), rand |-> (rs + 1) % HashPeriod]

\* calculateDistance(): planar distance, metres for millidegree inputs
calculateDistance(lat1, lon1, lat2, lon2) ==
    ISqrt(((lat2 - lat1) * (lat2 - lat1) + (lon2 - lon1) * (lon2 - lon1))
          * KmPerDegree * KmPerDegree)

\* operator<< of a double under std::fixed << std::setprecision(2)
Fixed2(v) ==
    LET a == Abs(v)
        c == a % 100
    IN  (IF v < 0 THEN "-" ELSE "") \o ToString(a \div 100) \o "."
        \o (IF c < 10 THEN "0" ELSE "") \o ToString(c)

\* operator+ of "prefix | " and a string given by its segments
Prefixed(prefix, segs) ==
    <<prefix \o " ", " " \o Head(segs)>> \o Tail(segs)

(***************************************************************************)
(* Block and Blockchain                                                    *)
(***************************************************************************)
\* Block::Block: stamps the block and draws its hash
Block(blockNum, prevHash, blockData, rs, now) ==
    LET g == generateHash(rs)
    IN  [block |-> [blockNumber  |-> blockNum,
                    currentHash  |-> g.hash,
                    previousHash |-> prevHash,
                    timestamp    |-> getCurrentTimestamp(now),
                    data         |-> blockData],
         rand  |-> g.rand]

\* Blockchain::createGenesisBlock
createGenesisBlock(ch, rs, now) ==
    LET g == generateHash(rs)
        b == Block(0, g.hash, <<"Genesis Block">>, g.rand, now)
    IN  [chain |-> Append(ch, b.block), rand |-> b.rand]

\* addBlock linking the new block to the token before the latest one
addBlockStaleLink(ch, data, rs, now) ==
    IF ch = <<>>
    THEN [ok |-> FALSE, chain |-> ch, rand |-> rs]
    ELSE LET latestBlock == ch[Len(ch)]
             b == Block(latestBlock.blockNumber + 1, latestBlock.previousHash,
                        data, rs, now)
         IN  [ok |-> TRUE, chain |-> Append(ch, b.block), rand |-> b.rand]

\* addBlock numbering the new block as the latest one
addBlockSameNumber(ch, data, rs, now) ==
    IF ch = <<>>
    THEN [ok |-> FALSE, chain |-> ch, rand |-> rs]
    ELSE LET latestBlock == ch[Len(ch)]
             b == Block(latestBlock.blockNumber, latestBlock.currentHash,
                        data, rs, now)
         IN  [ok |-> TRUE, chain |-> Append(ch, b.block), rand |-> b.rand]

\* Blockchain::addBlock; ok = FALSE is the rethrown "Blockchain is empty"
addBlock(ch, data, rs, now) ==
    IF ch = <<>>
    THEN [ok |-> FALSE, chain |-> ch, rand |-> rs]
    ELSE LET latestBlock == ch[Len(ch)]
             b == Block(latestBlock.blockNumber + 1, latestBlock.currentHash,
                        data, rs, now)
         IN  [ok |-> TRUE, chain |-> Append(ch, b.block), rand |-> b.rand]

\* isChainValid looking at the link of the second block only
isChainValidFirstLink(ch) ==
    Len(ch) < 2 \/ ch[2].previousHash = ch[1].currentHash

\* Blockchain::isChainValid
isChainValid(ch) ==
    \A i \in 2..Len(ch) : ch[i].previousHash = ch[i - 1].currentHash

(***************************************************************************)
(* Entities                                                                *)
(***************************************************************************)
\* Product::Product
Product(productId, productName, productPrice, productStock) ==
    [id |-> productId, name |-> productName, price |-> productPrice,
     stock |-> productStock]

\* updateStock ignoring the sign of the quantity
updateStockAbs(product, quantity) ==
    [product EXCEPT !.stock = @ + Abs(quantity)]

\* Product::updateStock
updateStock(product, quantity) ==
    [product EXCEPT !.stock = AddInt(@, quantity)]

\* hasEnoughStock refusing the quantities that are not positive
hasEnoughStockOfSome(product, quantity) ==
    quantity > 0 /\ product.stock >= quantity

\* Product::hasEnoughStock
hasEnoughStock(product, quantity) == product.stock >= quantity

\* Product::toString
ProductToString(p) ==
    <<"Product ID: " \o ToString(p.id) \o " ",
      " Name: " \o p.name \o " ",
      " Price: RM" \o Fixed2(p.price) \o " ",
      " Stock: " \o ToString(p.stock)>>

\* Supplier::Supplier
Supplier(supplierId, supplierName, supplierLocation, supplierBranch, lat, lon) ==
    [id |-> supplierId, name |-> supplierName, location |-> supplierLocation,
     branch |-> supplierBranch, latitude |-> lat, longitude |-> lon,
     productIds |-> <<>>]

\* Supplier::addProduct
SupplierAddProduct(supplier, productId) ==
    [supplier EXCEPT !.productIds = Append(@, productId)]

\* Supplier::toString
SupplierToString(s) ==
    <<"Supplier ID: " \o ToString(s.id) \o " ",
      " Name: " \o s.name \o " ",
      " Location: " \o s.location \o " ",
      " Branch: " \o s.branch>>

\* Retailer::Retailer
Retailer(retailerId, retailerName, retailerLocation, lat, lon, initialCredit, annualCredit) ==
    [id |-> retailerId, name |-> retailerName, location |-> retailerLocation,
     latitude |-> lat, longitude |-> lon, creditBalance |-> initialCredit,
     annualCreditBalance |-> annualCredit, productIds |-> <<>>]

\* deductCredit charging the current balance only
deductCreditCurrentOnly(retailer, amount) ==
    IF retailer.creditBalance >= amount
    THEN [ok |-> TRUE,
          retailer |-> [retailer EXCEPT !.creditBalance = @ - amount]]
    ELSE [ok |-> FALSE, retailer |-> retailer]

\* Retailer::deductCredit: the retailer afterwards and the returned flag
deductCredit(retailer, amount) ==
    IF retailer.creditBalance >= amount
    THEN [ok |-> TRUE,
          retailer |-> [retailer EXCEPT !.creditBalance = @ - amount,
                                        !.annualCreditBalance = @ - amount]]
    ELSE [ok |-> FALSE, retailer |-> retailer]

\* Retailer::toString
RetailerToString(r) ==
    <<"Retailer ID: " \o ToString(r.id) \o " ",
      " Name: " \o r.name \o " ",
      " Location: " \o r.location \o " ",
      " Credit Balance: RM" \o Fixed2(r.creditBalance) \o " ",
      " Annual Credit Balance: RM" \o Fixed2(r.annualCreditBalance)>>

\* Transporter::Transporter
Transporter(transporterId, transporterName, type, perKmCost, capacity) ==
    [id |-> transporterId, name |-> transporterName, transportType |-> type,
     costPerKm |-> perKmCost, maxCapacity |-> capacity]

\* Transporter::calculateTransportCost: metres times sen per kilometre
calculateTransportCost(transporter, distance) ==
    (distance * transporter.costPerKm) \div 1000

\* Transporter::toString
TransporterToString(t) ==
    <<"Transporter ID: " \o ToString(t.id) \o " ",
      " Name: " \o t.name \o " ",
      " Type: " \o t.transportType \o " ",
      " Cost/km: RM" \o Fixed2(t.costPerKm) \o " ",
      " Max Capacity: " \o Fixed2(t.maxCapacity) \o "kg">>

\* Transaction::Transaction
Transaction(transId, sId, rId, pId, tId, qty, now) ==
    [id |-> transId, supplierId |-> sId, retailerId |-> rId, productId |-> pId,
     transporterId |-> tId, quantity |-> qty, productCost |-> 0,
     transportCost |-> 0, totalCost |-> 0,
     timestamp |-> getCurrentTimestamp(now), status |-> "Pending",
     orderType |-> "Regular"]

\* Transaction::calculateTotalCost
calculateTotalCost(t) ==
    [t EXCEPT !.totalCost = t.productCost + t.transportCost]

\* Transaction::getBlockData
TransactionGetBlockData(t) ==
    <<"Transaction ID: " \o ToString(t.id) \o " ",
      " Supplier ID: " \o ToString(t.supplierId) \o " ",
      " Retailer ID: " \o ToString(t.retailerId) \o " ",
      " Product ID: " \o ToString(t.productId) \o " ",
      " Quantity: " \o ToString(t.quantity) \o " ",
      " Total Cost: RM" \o Fixed2(t.totalCost) \o " ",
      " Timestamp: " \o t.timestamp \o " ",
      " Status: " \o t.status \o " ",
      " Order Type: " \o t.orderType>>

\* validate rejecting a total cost equal to the threshold
validateBelow(contract, transaction) ==
    transaction.totalCost < contract.maxAllowedCost

\* PriceThresholdContract::validate
validate(contract, transaction) ==
    transaction.totalCost <= contract.maxAllowedCost

\* ProductionPlanningSystem::contracts, as filled by the constructor
contracts == <<[maxAllowedCost |-> PriceCeiling]>>

\* findProduct / findSupplier / findRetailer / findTransporter: the position
\* of the first entity with this id, 0 for nullptr
Find(entities, id) ==
    IF \E i \in 1..Len(entities) : entities[i].id = id
    THEN CHOOSE i \in 1..Len(entities) :
             /\ entities[i].id = id
             /\ \A j \in 1..(i - 1) : entities[j].id # id
    ELSE 0

(***************************************************************************)
(* ProductionPlanningSystem: the object as one record s, each method as an *)
(* operator giving the object afterwards (s), the returned value (ret) and *)
(* the message written to std::cerr (err, "" when none).                   *)
(***************************************************************************)
Cur ==
    [products |-> products, suppliers |-> suppliers, retailers |-> retailers,
     transporters |-> transporters, transactions |-> transactions,
     chain |-> chain,
     nextProductId |-> nextProductId, nextSupplierId |-> nextSupplierId,
     nextRetailerId |-> nextRetailerId,
     nextTransporterId |-> nextTransporterId,
     nextTransactionId |-> nextTransactionId,
     rand |-> randState, now |-> clock]

Install(s) ==
    /\ products' = s.products
    /\ suppliers' = s.suppliers
    /\ retailers' = s.retailers
    /\ transporters' = s.transporters
    /\ transactions' = s.transactions
    /\ chain' = s.chain
    /\ nextProductId' = s.nextProductId
    /\ nextSupplierId' = s.nextSupplierId
    /\ nextRetailerId' = s.nextRetailerId
    /\ nextTransporterId' = s.nextTransporterId
    /\ nextTransactionId' = s.nextTransactionId
    /\ randState' = s.rand

Result(s, r, e) == [s |-> s, ret |-> r, err |-> e]

\* blockchain.addBlock(blockData) inside a try block of the system: the
\* object after the call and whether the call returned normally
WithBlock(s, blockData) ==
    LET a == addBlock(s.chain, blockData, s.rand, s.now)
    IN  [ok |-> a.ok, s |-> [s EXCEPT !.chain = a.chain, !.rand = a.rand]]

\* ProductionPlanningSystem::addProduct
addProduct(s, name, price, stock) ==
    LET newProduct == Product(s.nextProductId, name, price, stock)
        s1 == [s EXCEPT !.products = Append(@, newProduct)]
        b  == WithBlock(s1, Prefixed("Added Product", ProductToString(newProduct)))
    IN  IF b.ok
        THEN Result([b.s EXCEPT !.nextProductId = @ + 1], s.nextProductId, "")
        ELSE Result(b.s, -1, "Error adding product: Blockchain is empty")

\* ProductionPlanningSystem::addSupplier
addSupplier(s, name, location, branch, latitude, longitude) ==
    LET newSupplier == Supplier(s.nextSupplierId, name, location, branch,
                                latitude, longitude)
        s1 == [s EXCEPT !.suppliers = Append(@, newSupplier)]
        b  == WithBlock(s1, Prefixed("Added Supplier", SupplierToString(newSupplier)))
    IN  IF b.ok
        THEN Result([b.s EXCEPT !.nextSupplierId = @ + 1], s.nextSupplierId, "")
        ELSE Result(b.s, -1, "Error adding supplier: Blockchain is empty")

\* ProductionPlanningSystem::addRetailer
addRetailer(s, name, location, latitude, longitude, initialCredit, annualCredit) ==
    LET newRetailer == Retailer(s.nextRetailerId, name, location, latitude,
                                longitude, initialCredit, annualCredit)
        s1 == [s EXCEPT !.retailers = Append(@, newRetailer)]
        b  == WithBlock(s1, Prefixed("Added Retailer", RetailerToString(newRetailer)))
    IN  IF b.ok
        THEN Result([b.s EXCEPT !.nextRetailerId = @ + 1], s.nextRetailerId, "")
        ELSE Result(b.s, -1, "Error adding retailer: Blockchain is empty")

\* ProductionPlanningSystem::addTransporter
addTransporter(s, name, type, costPerKm, capacity) ==
    LET newTransporter == Transporter(s.nextTransporterId, name, type,
                                      costPerKm, capacity)
        s1 == [s EXCEPT !.transporters = Append(@, newTransporter)]
        b  == WithBlock(s1, Prefixed("Added Transporter",
                                     TransporterToString(newTransporter)))
    IN  IF b.ok
        THEN Result([b.s EXCEPT !.nextTransporterId = @ + 1], s.nextTransporterId, "")
        ELSE Result(b.s, -1, "Error adding transporter: Blockchain is empty")

\* s1->addProduct(p) after Supplier* s1 = findSupplier(id), guarded by if (s1)
LinkProduct(s, supplierId, productId) ==
    LET i == Find(s.suppliers, supplierId)
    IN  IF i = 0 THEN s
        ELSE [s EXCEPT !.suppliers[i] = SupplierAddProduct(@, productId)]

\* ProductionPlanningSystem::loadSampleData
loadSampleData(s0) ==
    LET p1 == addProduct(s0, "Rice", 550, 1000).s
        p2 == addProduct(p1, "Vegetables", 320, 800).s
        p3 == addProduct(p2, "Fruits", 475, 600).s
        u1 == addSupplier(p3, "Malayan Agro",
                          "Lot 348, Kampung Datuk Keramat, 50400 Kuala Lumpur",
                          "Federal Territory of Kuala Lumpur", 3168, 101708).s
        u2 == addSupplier(u1, "Farm Fresh Produce",
                          "Jalan Tun Razak, 55000 Kuala Lumpur",
                          "Federal Territory of Kuala Lumpur", 3161, 101720).s
        k1 == LinkProduct(LinkProduct(u2, 1, 1), 1, 2)
        k2 == LinkProduct(LinkProduct(k1, 2, 2), 2, 3)
        r1 == addRetailer(k2, "SuperMart", "Bukit Bintang, 55100 Kuala Lumpur",
                          3148, 101698, 1000000, 10000000).s
        r2 == addRetailer(r1, "FreshMart", "Petaling Jaya, 47800 Selangor",
                          3107, 101607, 800000, 8000000).s
        r3 == addRetailer(r2, "QuickMart", "Shah Alam, 40000 Selangor",
                          3073, 101518, 500000, 5000000).s
        t1 == addTransporter(r3, "FastTruck", "Ordinary Ground Transfer",
                             250, 200000).s
        t2 == addTransporter(t1, "SpeedyDel", "Express Delivery",
                             375, 150000).s
    IN  t2

\* the members as resetSystem leaves them before loadSampleData, which is
\* also how the constructor's initialiser list leaves them
Cleared(rs, now) ==
    LET g == createGenesisBlock(<<>>, rs, now)
    IN  [products |-> <<>>, suppliers |-> <<>>, retailers |-> <<>>,
         transporters |-> <<>>, transactions |-> <<>>,
         chain |-> g.chain,
         nextProductId |-> 1, nextSupplierId |-> 1, nextRetailerId |-> 1,
         nextTransporterId |-> 1, nextTransactionId |-> 1,
         rand |-> g.rand, now |-> now]

\* ProductionPlanningSystem::ProductionPlanningSystem
Constructed(rs, now) == loadSampleData(Cleared(rs, now))

\* resetSystem without the reset of the ID counters
resetSystemKeepingCounters(s) ==
    Result(loadSampleData([Cleared(s.rand, s.now) EXCEPT
                              !.nextProductId = s.nextProductId,
                              !.nextSupplierId = s.nextSupplierId,
                              !.nextRetailerId = s.nextRetailerId,
                              !.nextTransporterId = s.nextTransporterId,
                              !.nextTransactionId = s.nextTransactionId]),
           0, "")

\* ProductionPlanningSystem::resetSystem
resetSystem(s) == Result(loadSampleData(Cleared(s.rand, s.now)), 0, "")

(***************************************************************************)
(* The transaction pipeline                                                *)
(***************************************************************************)
\* setStatus keeping the status of the constructor
setStatusKept(transaction, newStatus) == transaction

\* Transaction::setStatus
setStatus(transaction, newStatus) == [transaction EXCEPT !.status = newStatus]

\* a catch block that has consumed an identifier
CreateThrowsConsuming(s, what) ==
    Result([s EXCEPT !.nextTransactionId = @ + 1], -1,
           "Error creating transaction: " \o what)

\* createTransaction, catch block: an exception ends the call with -1
CreateThrows(s, what) ==
    Result(s, -1, "Error creating transaction: " \o what)

\* the record and the return without the increment of nextTransactionId
StoreAndRecordReusing(s, transaction, prefix) ==
    LET s1 == [s EXCEPT !.transactions = Append(@, transaction)]
        b  == WithBlock(s1, Prefixed(prefix, TransactionGetBlockData(transaction)))
    IN  Result(b.s, s.nextTransactionId, "")

\* the ledger record without the push_back
StoreAndRecordUnstored(s, transaction, prefix) ==
    LET b == WithBlock(s, Prefixed(prefix, TransactionGetBlockData(transaction)))
    IN  Result([b.s EXCEPT !.nextTransactionId = @ + 1], s.nextTransactionId, "")

\* the store keeping the latest transaction only
StoreAndRecordLatestOnly(s, transaction, prefix) ==
    LET s1 == [s EXCEPT !.transactions = <<transaction>>]
        b  == WithBlock(s1, Prefixed(prefix, TransactionGetBlockData(transaction)))
    IN  Result([b.s EXCEPT !.nextTransactionId = @ + 1], s.nextTransactionId, "")

\* createTransaction: transactions.push_back(transaction), the ledger record
\* and return nextTransactionId++
StoreAndRecord(s, transaction, prefix) ==
    LET s1 == [s EXCEPT !.transactions = Append(@, transaction)]
        b  == WithBlock(s1, Prefixed(prefix, TransactionGetBlockData(transaction)))
    IN  IF b.ok
        THEN Result([b.s EXCEPT !.nextTransactionId = @ + 1],
                    s.nextTransactionId, "")
        ELSE CreateThrows(b.s, "Blockchain is empty")

\* createTransaction: the supplier's product list holds productId
supplierHasProduct(supplier, productId) ==
    \E k \in 1..Len(supplier.productIds) : supplier.productIds[k] = productId

\* createTransaction: costs and construction of the Transaction
CostedTransaction(s, si, ri, pi, ti, quantity, orderType) ==
    LET supplier    == s.suppliers[si]
        retailer    == s.retailers[ri]
        product     == s.products[pi]
        transporter == s.transporters[ti]
        productCost == product.price * quantity
        distance    == calculateDistance(supplier.latitude, supplier.longitude,
                                         retailer.latitude, retailer.longitude)
        transportCost == calculateTransportCost(transporter, distance)
        t0 == Transaction(s.nextTransactionId, supplier.id, retailer.id,
                          product.id, transporter.id, quantity, s.now)
        t1 == [t0 EXCEPT !.productCost = productCost,
                         !.transportCost = transportCost]
    IN  [calculateTotalCost(t1) EXCEPT !.orderType = orderType]

\* a contract loop that approves everything
isValidAlways(transaction) == TRUE

\* createTransaction: every contract approves, in registration order
isValid(transaction) ==
    \A c \in 1..Len(contracts) : validate(contracts[c], transaction)

\* createTransaction: if (!isValid) { ... }
RejectByPolicy(s, transaction) ==
    StoreAndRecord(s, setStatus(transaction, "Failed"), "Failed Transaction")

\* the credit rejection recorded under the prefix of the policy rejection
RejectByCreditAsPolicy(s, transaction) ==
    StoreAndRecord(s, setStatus(transaction, "Failed"), "Failed Transaction")

\* createTransaction: if (!retailer->deductCredit(totalCost)) { ... }
RejectByCredit(s, transaction) ==
    StoreAndRecord(s, setStatus(transaction, "Failed"),
                   "Failed Transaction (Credit)")

\* createTransaction: stock update and completion, the credit being deducted
Complete(s, transaction, ri, pi, retailerAfter) ==
    LET s1 == [s EXCEPT !.retailers[ri] = retailerAfter,
                        !.products[pi] = updateStock(@, NegInt(transaction.quantity))]
    IN  StoreAndRecord(s1, setStatus(transaction, "Completed"),
                       "Completed Transaction")

\* createTransaction looking at the stock after the contracts
createTransactionPolicyFirst(s, supplierId, retailerId, productId, transporterId, quantity, orderType) ==
    LET si == Find(s.suppliers, supplierId)
        ri == Find(s.retailers, retailerId)
        pi == Find(s.products, productId)
        ti == Find(s.transporters, transporterId)
    IN  IF si = 0 THEN CreateThrows(s, "Supplier ID not found")
        ELSE IF ri = 0 THEN CreateThrows(s, "Retailer ID not found")
        ELSE IF pi = 0 THEN CreateThrows(s, "Product ID not found")
        ELSE IF ti = 0 THEN CreateThrows(s, "Transporter ID not found")
        ELSE IF ~supplierHasProduct(s.suppliers[si], productId)
             THEN CreateThrows(s, "This supplier does not supply this product")
        ELSE LET transaction == CostedTransaction(s, si, ri, pi, ti, quantity,
                                                  orderType)
             IN  IF ~isValid(transaction)
                 THEN RejectByPolicy(s, transaction)
                 ELSE IF ~hasEnoughStock(s.products[pi], quantity)
                 THEN CreateThrows(s, "Insufficient product stock")
                 ELSE LET d == deductCredit(s.retailers[ri], transaction.totalCost)
                      IN  IF ~d.ok
                          THEN RejectByCredit(s, transaction)
                          ELSE Complete(s, transaction, ri, pi, d.retailer)

\* ProductionPlanningSystem::createTransaction
createTransaction(s, supplierId, retailerId, productId, transporterId, quantity, orderType) ==
    LET si == Find(s.suppliers, supplierId)
        ri == Find(s.retailers, retailerId)
        pi == Find(s.products, productId)
        ti == Find(s.transporters, transporterId)
    IN  IF si = 0 THEN CreateThrows(s, "Supplier ID not found")
        ELSE IF ri = 0 THEN CreateThrows(s, "Retailer ID not found")
        ELSE IF pi = 0 THEN CreateThrows(s, "Product ID not found")
        ELSE IF ti = 0 THEN CreateThrows(s, "Transporter ID not found")
        ELSE IF ~supplierHasProduct(s.suppliers[si], productId)
             THEN CreateThrows(s, "This supplier does not supply this product")
        ELSE IF ~hasEnoughStock(s.products[pi], quantity)
             THEN CreateThrows(s, "Insufficient product stock")
        ELSE LET transaction == CostedTransaction(s, si, ri, pi, ti, quantity,
                                                  orderType)
             IN  IF ~isValid(transaction)
                 THEN RejectByPolicy(s, transaction)
                 ELSE LET d == deductCredit(s.retailers[ri], transaction.totalCost)
                      IN  IF ~d.ok
                          THEN RejectByCredit(s, transaction)
                          ELSE Complete(s, transaction, ri, pi, d.retailer)

\* ProductionPlanningSystem::beginRetailerTransaction, the numbers typed
\* being retailerId, supplierId, productId, quantity and transporterId; ret
\* is the transactionId createTransaction returns, 0 when it is not called
beginRetailerTransaction(s, retailerId, supplierId, productId, quantity, transporterId) ==
    LET si == Find(s.suppliers, supplierId)
    IN  IF Find(s.retailers, retailerId) = 0
        THEN Result(s, 0, "Error creating transaction: Retailer not found")
        ELSE IF si = 0
        THEN Result(s, 0, "Error creating transaction: Supplier not found")
        ELSE IF ~supplierHasProduct(s.suppliers[si], productId)
        THEN Result(s, 0, "Error creating transaction: This supplier does not provide this product")
        ELSE IF quantity <= 0
        THEN Result(s, 0, "Error creating transaction: Quantity must be positive")
        ELSE createTransaction(s, supplierId, retailerId, productId,
                               transporterId, quantity, "Regular")

(***************************************************************************)
(* Text conversions of the persisted record formats                        *)
(***************************************************************************)
\* the parts std::getline(ss, item, '|') yields for a string with these
\* segments: a final empty segment is not delivered
GetlineParts(segs) ==
    IF segs # <<>> /\ segs[Len(segs)] = ""
    THEN SubSeq(segs, 1, Len(segs) - 1)
    ELSE segs

DigitValue(c) ==
    CASE c = "0" -> 0 [] c = "1" -> 1 [] c = "2" -> 2 [] c = "3" -> 3
      [] c = "4" -> 4 [] c = "5" -> 5 [] c = "6" -> 6 [] c = "7" -> 7
      [] c = "8" -> 8 [] c = "9" -> 9 [] OTHER -> -1

IsDigit(c) == DigitValue(c) >= 0

RECURSIVE SkipSpaces(_)
SkipSpaces(str) ==
    IF Len(str) > 0 /\ Head(str) = " " THEN SkipSpaces(Tail(str)) ELSE str

\* the digits at the front of str: their value, their number, the rest, and
\* whether the value left the range of int
RECURSIVE ReadDigits(_, _, _, _)
ReadDigits(str, acc, n, over) ==
    IF Len(str) > 0 /\ IsDigit(Head(str))
    THEN LET d == DigitValue(Head(str))
             o == over \/ acc > (2147483647 - d) \div 10
         IN  ReadDigits(Tail(str), IF o THEN 0 ELSE acc * 10 + d, n + 1, o)
    ELSE [value |-> acc, count |-> n, rest |-> str, over |-> over]

\* an optional sign at the front of str
ReadSign(str) ==
    IF Len(str) > 0 /\ Head(str) = "-" THEN [neg |-> TRUE, rest |-> Tail(str)]
    ELSE IF Len(str) > 0 /\ Head(str) = "+" THEN [neg |-> FALSE, rest |-> Tail(str)]
    ELSE [neg |-> FALSE, rest |-> str]

\* std::stoi, the sign being read: the digits d that follow decide
stoiDigits(neg, d) ==
    IF d.count = 0 \/ d.over
    THEN [ok |-> FALSE, value |-> 0]
    ELSE [ok |-> TRUE, value |-> IF neg THEN -d.value ELSE d.value]

\* std::stoi, the leading spaces being skipped
stoiSigned(g) == stoiDigits(g.neg, ReadDigits(g.rest, 0, 0, FALSE))

\* std::stoi: ok = FALSE is std::invalid_argument or std::out_of_range
stoi(str) == stoiSigned(ReadSign(SkipSpaces(str)))

Pow10(k) == IF k = 3 THEN 1000 ELSE IF k = 2 THEN 100 ELSE IF k = 1 THEN 10 ELSE 1

\* the first k digits of the fraction digits, as a number of k digits
RECURSIVE ReadFraction(_, _)
ReadFraction(str, k) ==
    IF k = 0 THEN 0
    ELSE IF Len(str) > 0 /\ IsDigit(Head(str))
         THEN DigitValue(Head(str)) * Pow10(k - 1) + ReadFraction(Tail(str), k - 1)
         ELSE 0

\* std::stod onto a grid of k decimals, the sign and the whole digits w
\* being read: an optional point and fraction digits follow
stodFraction(neg, w, k) ==
    IF Len(w.rest) > 0 /\ Head(w.rest) = "."
    THEN IF (w.count = 0 /\ ~(Len(w.rest) > 1 /\ IsDigit(Head(Tail(w.rest)))))
            \/ w.over \/ w.value > 2147482
         THEN [ok |-> FALSE, value |-> 0]
         ELSE [ok |-> TRUE,
               value |-> (IF neg THEN -1 ELSE 1)
                         * (w.value * Pow10(k) + ReadFraction(Tail(w.rest), k))]
    ELSE IF w.count = 0 \/ w.over \/ w.value > 2147482
         THEN [ok |-> FALSE, value |-> 0]
         ELSE [ok |-> TRUE, value |-> (IF neg THEN -1 ELSE 1) * w.value * Pow10(k)]

\* std::stod onto a grid of k decimals, the leading spaces being skipped
stodSigned(g, k) == stodFraction(g.neg, ReadDigits(g.rest, 0, 0, FALSE), k)

\* std::stod onto a fixed-point grid of k decimals; the digits after the
\* k-th decimal are dropped
stodGrid(str, k) == stodSigned(ReadSign(SkipSpaces(str)), k)

\* std::stod of an amount (sen)
stod(str) == stodGrid(str, 2)

\* std::stod of a coordinate (millidegrees)
stodDeg(str) == stodGrid(str, 3)

RECURSIVE NumDigits(_)
NumDigits(n) == IF n = 0 THEN 0 ELSE 1 + NumDigits(n \div 10)

\* operator<< of a double with the stream's default format (%g, six
\* significant digits, no trailing zeros), for amounts below 1e6
FormatG(v) ==
    LET a  == Abs(v)
        nd == NumDigits(a \div 100)
        \* decimals that fit in six significant digits
        r  == IF nd <= 4 THEN a
              ELSE IF nd = 5
                   THEN LET q == a \div 10
                            m == a % 10
                        IN  10 * (IF m > 5 \/ (m = 5 /\ q % 2 = 1) THEN q + 1 ELSE q)
                   ELSE LET q == a \div 100
                            m == a % 100
                        IN  100 * (IF m > 50 \/ (m = 50 /\ q % 2 = 1) THEN q + 1 ELSE q)
        w  == r \div 100
        c  == r % 100
    IN  (IF v < 0 THEN "-" ELSE "") \o ToString(w)
        \o (IF c = 0 THEN ""
            ELSE IF c % 10 = 0 THEN "." \o ToString(c \div 10)
            ELSE IF c < 10 THEN ".0" \o ToString(c)
            ELSE "." \o ToString(c))

\* a list of product ids joined by ','
RECURSIVE JoinIds(_)
JoinIds(ids) ==
    IF ids = <<>> THEN ""
    ELSE IF Len(ids) = 1 THEN ToString(ids[1])
    ELSE ToString(ids[1]) \o "," \o JoinIds(Tail(ids))

\* the items std::getline(productStream, productId, ',') yields
RECURSIVE SplitComma(_, _)
SplitComma(str, item) ==
    IF Len(str) = 0 THEN (IF item = "" THEN <<>> ELSE <<item>>)
    ELSE IF Head(str) = "," THEN <<item>> \o SplitComma(Tail(str), "")
    ELSE SplitComma(Tail(str), item \o Head(str))

\* operator<< of a double held in thousandths (a coordinate, a distance in
\* kilometres) with the default format: three decimals fit in six
\* significant digits below 1000
FormatMilli(v) ==
    LET a == Abs(v)
        w == a \div 1000
        c == a % 1000
    IN  (IF v < 0 THEN "-" ELSE "") \o ToString(w)
        \o (IF c = 0 THEN ""
            ELSE IF c % 100 = 0 THEN "." \o ToString(c \div 100)
            ELSE IF c % 10 = 0
                 THEN "." \o (IF c < 100 THEN "0" ELSE "") \o ToString(c \div 10)
            ELSE "." \o (IF c < 10 THEN "00" ELSE IF c < 100 THEN "0" ELSE "")
                 \o ToString(c))

\* Block::serialize
BlockSerialize(b) ==
    GetlineParts(<<ToString(b.blockNumber), b.currentHash, b.previousHash,
                   b.timestamp>> \o b.data)

\* Block::deserialize; ok = FALSE is the exception it throws
BlockDeserialize(parts, rs, now) ==
    IF Len(parts) < 5 THEN [ok |-> FALSE, rand |-> rs]
    ELSE LET n == stoi(parts[1])
         IN  IF ~n.ok THEN [ok |-> FALSE, rand |-> rs]
             ELSE LET b == Block(n.value, parts[3], <<parts[5]>>, rs, now)
                  IN  [ok |-> TRUE, rand |-> b.rand,
                       block |-> [b.block EXCEPT !.currentHash = parts[2],
                                                 !.timestamp = parts[4]]]

\* Product::serialize
ProductSerialize(p) ==
    GetlineParts(<<ToString(p.id), p.name, FormatG(p.price), ToString(p.stock)>>)

\* Product::deserialize
ProductDeserialize(parts) ==
    IF Len(parts) < 4 THEN [ok |-> FALSE]
    ELSE LET id == stoi(parts[1])
             price == stod(parts[3])
             stock == stoi(parts[4])
         IN  IF ~id.ok \/ ~price.ok \/ ~stock.ok THEN [ok |-> FALSE]
             ELSE [ok |-> TRUE,
                   value |-> Product(id.value, parts[2], price.value, stock.value)]

\* the product ids of a serialized supplier or retailer: the text after the
\* last '|', one id per ',', empty items skipped
RECURSIVE ParseIds(_)
ParseIds(items) ==
    IF items = <<>> THEN [ok |-> TRUE, ids |-> <<>>]
    ELSE LET rest == ParseIds(Tail(items))
             n == stoi(Head(items))
         IN  IF Head(items) = "" THEN rest
             ELSE IF ~n.ok \/ ~rest.ok THEN [ok |-> FALSE, ids |-> <<>>]
             ELSE [ok |-> TRUE, ids |-> <<n.value>> \o rest.ids]

\* Supplier::serialize
SupplierSerialize(s) ==
    GetlineParts(<<ToString(s.id), s.name, s.location, s.branch,
                   FormatMilli(s.latitude), FormatMilli(s.longitude),
                   JoinIds(s.productIds)>>)

\* Supplier::deserialize
SupplierDeserialize(parts) ==
    IF Len(parts) < 6 THEN [ok |-> FALSE]
    ELSE LET id == stoi(parts[1])
             lat == stodDeg(parts[5])
             lon == stodDeg(parts[6])
             ids == IF Len(parts) > 6 THEN ParseIds(SplitComma(parts[7], ""))
                    ELSE [ok |-> TRUE, ids |-> <<>>]
         IN  IF ~id.ok \/ ~lat.ok \/ ~lon.ok \/ ~ids.ok THEN [ok |-> FALSE]
             ELSE [ok |-> TRUE,
                   value |-> [Supplier(id.value, parts[2], parts[3], parts[4],
                                       lat.value, lon.value)
                              EXCEPT !.productIds = ids.ids]]

\* Retailer::serialize
RetailerSerialize(r) ==
    GetlineParts(<<ToString(r.id), r.name, r.location, FormatMilli(r.latitude),
                   FormatMilli(r.longitude), FormatG(r.creditBalance),
                   FormatG(r.annualCreditBalance), JoinIds(r.productIds)>>)

\* Retailer::deserialize
RetailerDeserialize(parts) ==
    IF Len(parts) < 7 THEN [ok |-> FALSE]
    ELSE LET id == stoi(parts[1])
             lat == stodDeg(parts[4])
             lon == stodDeg(parts[5])
             credit == stod(parts[6])
             annual == stod(parts[7])
             ids == IF Len(parts) > 7 THEN ParseIds(SplitComma(parts[8], ""))
                    ELSE [ok |-> TRUE, ids |-> <<>>]
         IN  IF ~id.ok \/ ~lat.ok \/ ~lon.ok \/ ~credit.ok \/ ~annual.ok \/ ~ids.ok
             THEN [ok |-> FALSE]
             ELSE [ok |-> TRUE,
                   value |-> [Retailer(id.value, parts[2], parts[3], lat.value,
                                       lon.value, credit.value, annual.value)
                              EXCEPT !.productIds = ids.ids]]

\* Transporter::serialize
TransporterSerialize(t) ==
    GetlineParts(<<ToString(t.id), t.name, t.transportType,
                   FormatG(t.costPerKm), FormatG(t.maxCapacity)>>)

\* Transporter::deserialize
TransporterDeserialize(parts) ==
    IF Len(parts) < 5 THEN [ok |-> FALSE]
    ELSE LET id == stoi(parts[1])
             cost == stod(parts[4])
             cap == stod(parts[5])
         IN  IF ~id.ok \/ ~cost.ok \/ ~cap.ok THEN [ok |-> FALSE]
             ELSE [ok |-> TRUE,
                   value |-> Transporter(id.value, parts[2], parts[3],
                                         cost.value, cap.value)]

\* Transaction::serialize
TransactionSerialize(t) ==
    GetlineParts(<<ToString(t.id), ToString(t.supplierId), ToString(t.retailerId),
                   ToString(t.productId), ToString(t.transporterId),
                   ToString(t.quantity), FormatG(t.productCost),
                   FormatG(t.transportCost), FormatG(t.totalCost),
                   t.timestamp, t.status, t.orderType>>)

\* Transaction::deserialize
TransactionDeserialize(parts, now) ==
    IF Len(parts) < 12 THEN [ok |-> FALSE]
    ELSE LET n == [k \in 1..6 |-> stoi(parts[k])]
             c == [k \in 7..9 |-> stod(parts[k])]
         IN  IF (\E k \in 1..6 : ~n[k].ok) \/ (\E k \in 7..9 : ~c[k].ok)
             THEN [ok |-> FALSE]
             ELSE [ok |-> TRUE,
                   value |-> [Transaction(n[1].value, n[2].value, n[3].value,
                                          n[4].value, n[5].value, n[6].value, now)
                              EXCEPT !.productCost = c[7].value,
                                     !.transportCost = c[8].value,
                                     !.totalCost = c[9].value,
                                     !.timestamp = parts[10],
                                     !.status = parts[11],
                                     !.orderType = parts[12]]]

(***************************************************************************)
(* Files: a file is there or not, and holds lines; a line is held as the   *)
(* parts std::getline(ss, item, '|') yields for it.                        *)
(***************************************************************************)
NoFile == [exists |-> FALSE, lines |-> <<>>]

File(lines) == [exists |-> TRUE, lines |-> lines]

\* Blockchain::saveToFile, the file being writable
saveToFile(ch) == File([i \in 1..Len(ch) |-> BlockSerialize(ch[i])])

\* Blockchain::loadFromFile, the while loop from line i on: the chain, the
\* generator and whether a line threw
RECURSIVE LoadBlocks(_, _, _, _, _)
LoadBlocks(lines, i, ch, rs, now) ==
    IF i > Len(lines) THEN [ok |-> TRUE, chain |-> ch, rand |-> rs]
    ELSE LET d == BlockDeserialize(lines[i], rs, now)
         IN  IF d.ok THEN LoadBlocks(lines, i + 1, Append(ch, d.block), d.rand, now)
             ELSE [ok |-> FALSE, chain |-> ch, rand |-> d.rand]

\* the end of loadFromFile without the genesis block of an empty chain
GenesisIfEmptySkipped(l, now) == l

\* Blockchain::loadFromFile, after the while loop with outcome l
GenesisIfEmpty(l, now) ==
    IF ~l.ok THEN l
    ELSE IF l.chain = <<>>
         THEN [ok |-> TRUE] @@ createGenesisBlock(l.chain, l.rand, now)
         ELSE l

\* Blockchain::loadFromFile
loadFromFile(ch, file, rs, now) ==
    IF ~file.exists THEN [ok |-> FALSE, chain |-> ch, rand |-> rs]
    ELSE GenesisIfEmpty(LoadBlocks(file.lines, 1, <<>>, rs, now), now)

\* the entities of the lines that deserialize; the others are reported and
\* skipped
RECURSIVE LoadProducts(_)
LoadProducts(lines) ==
    IF lines = <<>> THEN <<>>
    ELSE LET d == ProductDeserialize(Head(lines))
         IN  (IF d.ok THEN <<d.value>> ELSE <<>>) \o LoadProducts(Tail(lines))

RECURSIVE LoadSuppliers(_)
LoadSuppliers(lines) ==
    IF lines = <<>> THEN <<>>
    ELSE LET d == SupplierDeserialize(Head(lines))
         IN  (IF d.ok THEN <<d.value>> ELSE <<>>) \o LoadSuppliers(Tail(lines))

RECURSIVE LoadRetailers(_)
LoadRetailers(lines) ==
    IF lines = <<>> THEN <<>>
    ELSE LET d == RetailerDeserialize(Head(lines))
         IN  (IF d.ok THEN <<d.value>> ELSE <<>>) \o LoadRetailers(Tail(lines))

RECURSIVE LoadTransporters(_)
LoadTransporters(lines) ==
    IF lines = <<>> THEN <<>>
    ELSE LET d == TransporterDeserialize(Head(lines))
         IN  (IF d.ok THEN <<d.value>> ELSE <<>>) \o LoadTransporters(Tail(lines))

RECURSIVE LoadTransactions(_, _)
LoadTransactions(lines, now) ==
    IF lines = <<>> THEN <<>>
    ELSE LET d == TransactionDeserialize(Head(lines), now)
         IN  (IF d.ok THEN <<d.value>> ELSE <<>>)
             \o LoadTransactions(Tail(lines), now)

\* idFile >> nextProductId >> ... : the five counters after the reads, given
\* the file's tokens.  A read at the end of the file or after a failed read
\* leaves its counter; a read that finds no number stores 0 and fails.
RECURSIVE ReadIds(_, _, _)
ReadIds(tokens, k, ids) ==
    IF k > Len(ids) \/ k > Len(tokens) THEN ids
    ELSE LET g == ReadSign(tokens[k])
             d == ReadDigits(g.rest, 0, 0, FALSE)
             v == IF g.neg THEN -d.value ELSE d.value
         IN  IF d.count = 0 THEN [ids EXCEPT ![k] = 0]
             ELSE IF d.over
                  THEN [ids EXCEPT ![k] = IF g.neg THEN -2147483647 - 1
                                          ELSE 2147483647]
             ELSE IF d.rest # ""
                  THEN IF k < Len(ids) THEN [ids EXCEPT ![k] = v, ![k + 1] = 0]
                                       ELSE [ids EXCEPT ![k] = v]
             ELSE ReadIds(tokens, k + 1, [ids EXCEPT ![k] = v])

NoDisk ==
    [blockchain |-> NoFile, products |-> NoFile, suppliers |-> NoFile,
     retailers |-> NoFile, transporters |-> NoFile, transactions |-> NoFile,
     nextids |-> NoFile]

\* the lines of a file of entities
Lines(entities, kind) ==
    [i \in 1..Len(entities) |->
        CASE kind = "products"     -> ProductSerialize(entities[i])
          [] kind = "suppliers"    -> SupplierSerialize(entities[i])
          [] kind = "retailers"    -> RetailerSerialize(entities[i])
          [] kind = "transporters" -> TransporterSerialize(entities[i])
          [] kind = "transactions" -> TransactionSerialize(entities[i])]

\* ProductionPlanningSystem::saveData, every file being writable: the files
\* it leaves
saveData(s) ==
    [blockchain   |-> saveToFile(s.chain),
     products     |-> File(Lines(s.products, "products")),
     suppliers    |-> File(Lines(s.suppliers, "suppliers")),
     retailers    |-> File(Lines(s.retailers, "retailers")),
     transporters |-> File(Lines(s.transporters, "transporters")),
     transactions |-> File(Lines(s.transactions, "transactions")),
     nextids      |-> File(<<<<ToString(s.nextProductId)>>,
                             <<ToString(s.nextSupplierId)>>,
                             <<ToString(s.nextRetailerId)>>,
                             <<ToString(s.nextTransporterId)>>,
                             <<ToString(s.nextTransactionId)>>>>)]

\* the tokens of nextids.dat, one on each line that is not blank
Tokens(file) ==
    LET full == SelectSeq(file.lines, LAMBDA l : l # <<>> /\ l[1] # "")
    IN  [i \in 1..Len(full) |-> full[i][1]]

\* the five counters as nextids.dat leaves them
LoadedIds(s, d) ==
    IF d.nextids.exists
    THEN ReadIds(Tokens(d.nextids), 1,
                 <<s.nextProductId, s.nextSupplierId, s.nextRetailerId,
                   s.nextTransporterId, s.nextTransactionId>>)
    ELSE <<s.nextProductId, s.nextSupplierId, s.nextRetailerId,
           s.nextTransporterId, s.nextTransactionId>>

\* loadData after blockchain.loadFromFile("blockchain.dat") with outcome l,
\* the five collections being cleared
LoadedData(s, d, l, ids) ==
    IF ~l.ok
    THEN Result([s EXCEPT !.products = <<>>, !.suppliers = <<>>,
                          !.retailers = <<>>, !.transporters = <<>>,
                          !.transactions = <<>>,
                          !.chain = l.chain, !.rand = l.rand],
                0,
                IF d.blockchain.exists THEN ""
                ELSE "Could not open file for reading: blockchain.dat")
    ELSE Result([s EXCEPT
                    !.chain = l.chain, !.rand = l.rand,
                    !.products = LoadProducts(d.products.lines),
                    !.suppliers = LoadSuppliers(d.suppliers.lines),
                    !.retailers = LoadRetailers(d.retailers.lines),
                    !.transporters = LoadTransporters(d.transporters.lines),
                    !.transactions = LoadTransactions(d.transactions.lines, s.now),
                    !.nextProductId = ids[1], !.nextSupplierId = ids[2],
                    !.nextRetailerId = ids[3], !.nextTransporterId = ids[4],
                    !.nextTransactionId = ids[5]],
                1, "")

\* ProductionPlanningSystem::loadData; ret 1 is true, 0 is false
loadData(s, d) ==
    LoadedData(s, d, loadFromFile(s.chain, d.blockchain, s.rand, s.now),
               LoadedIds(s, d))

(***************************************************************************)
(* The menu's catalog handlers                                             *)
(***************************************************************************)
\* ProductionPlanningSystem::addNewProduct
addNewProduct(s, name, price, stock) ==
    IF price < 0 THEN Result(s, -1, "Error adding product: Invalid price")
    ELSE IF stock < 0 THEN Result(s, -1, "Error adding product: Invalid stock")
    ELSE addProduct(s, name, price, stock)

\* addNewSupplier, the do-while loop: the product ids typed, 0 to stop
RECURSIVE LinkTyped(_, _, _)
LinkTyped(s, id, typed) ==
    IF typed = <<>> \/ Head(typed) = 0 THEN s
    ELSE LinkTyped(IF Find(s.products, Head(typed)) # 0
                   THEN LinkProduct(s, id, Head(typed))
                   ELSE s,
                   id, Tail(typed))

\* addNewSupplier asking for the products whatever addSupplier returned
addNewSupplierLinkingAnyway(s, name, location, branch, latitude, longitude, typed) ==
    IF latitude < -90000 \/ latitude > 90000
    THEN Result(s, -1, "Error adding supplier: Invalid latitude (-90 to 90)")
    ELSE IF longitude < -180000 \/ longitude > 180000
    THEN Result(s, -1, "Error adding supplier: Invalid longitude (-180 to 180)")
    ELSE LET a == addSupplier(s, name, location, branch, latitude, longitude)
         IN  Result(LinkTyped(a.s, s.nextSupplierId, typed), a.ret, a.err)

\* ProductionPlanningSystem::addNewSupplier
addNewSupplier(s, name, location, branch, latitude, longitude, typed) ==
    IF latitude < -90000 \/ latitude > 90000
    THEN Result(s, -1, "Error adding supplier: Invalid latitude (-90 to 90)")
    ELSE IF longitude < -180000 \/ longitude > 180000
    THEN Result(s, -1, "Error adding supplier: Invalid longitude (-180 to 180)")
    ELSE LET a == addSupplier(s, name, location, branch, latitude, longitude)
         IN  IF a.ret = -1 THEN a
             ELSE Result(LinkTyped(a.s, a.ret, typed), a.ret, a.err)

\* ProductionPlanningSystem::addNewRetailer
addNewRetailer(s, name, location, latitude, longitude, initialCredit, annualCredit) ==
    IF latitude < -90000 \/ latitude > 90000
    THEN Result(s, -1, "Error adding retailer: Invalid latitude (-90 to 90)")
    ELSE IF longitude < -180000 \/ longitude > 180000
    THEN Result(s, -1, "Error adding retailer: Invalid longitude (-180 to 180)")
    ELSE IF initialCredit < 0 \/ annualCredit < 0
    THEN Result(s, -1, "Error adding retailer: Invalid credit amount")
    ELSE addRetailer(s, name, location, latitude, longitude, initialCredit,
                     annualCredit)

\* ProductionPlanningSystem::addNewTransporter
addNewTransporter(s, name, type, costPerKm, capacity) ==
    IF costPerKm <= 0 THEN Result(s, -1, "Error adding transporter: Invalid cost")
    ELSE IF capacity <= 0
    THEN Result(s, -1, "Error adding transporter: Invalid capacity")
    ELSE addTransporter(s, name, type, costPerKm, capacity)

(***************************************************************************)
(* Route optimizer and inventory allocator                                 *)
(***************************************************************************)
\* static_cast<int> of a quotient of integers: rounds towards zero
TruncDiv(a, b) ==
    IF (a >= 0) = (b > 0) THEN Abs(a) \div Abs(b) ELSE -(Abs(a) \div Abs(b))

RECURSIVE Pow2(_)
Pow2(e) == IF e <= 0 THEN 1 ELSE 2 * Pow2(e - 1)

\* the binary exponent of the quotient n / d of two positive integers: the
\* j with 2^-j <= n / d < 2^(1 - j)
RECURSIVE QuotientExponent(_, _)
QuotientExponent(n, d) ==
    IF n >= 2 * d THEN QuotientExponent(n, 2 * d) - 1
    ELSE IF n < d THEN QuotientExponent(2 * n, d) + 1
    ELSE 0

\* the division static_cast<double>(n) / d, carried on for p more binary
\* digits from the remainder r, bit being the last digit of the quotient:
\* the remainder that is dropped when the quotient is rounded down to its
\* 53 digits (to nearest, ties to even), 0 when it is exact or rounded up
RECURSIVE DivideBits(_, _, _, _)
DivideBits(r, bit, d, p) ==
    IF p = 0 THEN (IF 2 * r < d \/ (2 * r = d /\ bit = 0) THEN r ELSE 0)
    ELSE IF 2 * r >= d THEN DivideBits(2 * r - d, 1, d, p - 1)
    ELSE DivideBits(2 * r, 0, d, p - 1)

\* static_cast<int>(a * q) for the double q = n / d rounded down by
\* r / (d * 2^(52 + j)), the exact product a * n / d being the integer k:
\* the product is rounded to k when it is at most half a unit in the last
\* place below k, e being the exponent of that bound, and to less otherwise
MulRatioExact(a, r, d, k, e) ==
    IF r = 0 THEN k
    ELSE IF (IF e >= 0 THEN a * r <= d * Pow2(e) ELSE a * r * Pow2(-e) <= d)
         THEN k
         ELSE k - 1

\* static_cast<int>(a * (static_cast<double>(n) / d)) for positive a, n and d
\* whose exact quotient a * n / d is the integer k, j being the exponent of
\* n / d
MulRatioInteger(a, n, d, k, j) ==
    MulRatioExact(a, DivideBits(n % d, (n \div d) % 2, d, 52 + j), d, k,
                  j - QuotientExponent(k, 1) - 1
                  - (IF Pow2(-QuotientExponent(k, 1)) = k THEN 1 ELSE 0))

\* static_cast<int>(a * (static_cast<double>(n) / d)) for d > 0 and operands
\* below 2^20: the two roundings of the double arithmetic matter only when
\* a * n / d is an integer
MulRatio(a, n, d) ==
    IF (a * n) % d # 0 \/ a * n = 0 THEN TruncDiv(a * n, d)
    ELSE (IF a * n < 0 THEN -1 ELSE 1)
         * MulRatioInteger(Abs(a), Abs(n), d, Abs(a * n) \div d,
                           QuotientExponent(Abs(n), d))

RECURSIVE SumTo(_, _)
SumTo(f, n) == IF n = 0 THEN 0 ELSE f[n] + SumTo(f, n - 1)

\* a scan keeping the last of the smallest values
FirstMinLastWins(f, S) ==
    IF S = {} THEN 1
    ELSE CHOOSE i \in S : /\ \A j \in S : f[i] <= f[j]
                          /\ \A j \in S : j > i => f[j] > f[i]

\* the first index of S at which f is smallest: a scan keeping the first
\* strictly smaller value, 1 when S is empty (the index the scan starts from)
FirstMin(f, S) ==
    IF S = {} THEN 1
    ELSE CHOOSE i \in S : /\ \A j \in S : f[i] <= f[j]
                          /\ \A j \in S : j < i => f[j] > f[i]

\* optimizeDistributionRoute: distances[i][j]
RetailerDistances(rs) ==
    [i \in 1..Len(rs) |-> [j \in 1..Len(rs) |->
        IF i = j THEN 0
        ELSE calculateDistance(rs[i].latitude, rs[i].longitude,
                               rs[j].latitude, rs[j].longitude)]]

\* optimizeDistributionRoute: supplierDistances[i]
SupplierDistances(supplier, rs) ==
    [i \in 1..Len(rs) |->
        calculateDistance(supplier.latitude, supplier.longitude,
                          rs[i].latitude, rs[i].longitude)]

\* optimizeDistributionRoute: the greedy selection, as indexes of retailers
RECURSIVE GreedyFrom(_, _, _, _)
GreedyFrom(dist, current, visited, n) ==
    IF n = 0 THEN <<>>
    ELSE LET nextIndex == FirstMin(dist[current], DOMAIN dist \ visited)
         IN  <<nextIndex>> \o GreedyFrom(dist, nextIndex,
                                         visited \cup {nextIndex}, n - 1)

GreedyRoute(supplier, rs) ==
    LET first == FirstMin(SupplierDistances(supplier, rs), 1..Len(rs))
    IN  <<first>> \o GreedyFrom(RetailerDistances(rs), first, {first}, Len(rs) - 1)

\* optimizeDistributionRoute: idToIndex[id], the last retailer with this id
IdToIndex(rs, id) ==
    CHOOSE i \in 1..Len(rs) :
        rs[i].id = id /\ \A j \in (i + 1)..Len(rs) : rs[j].id # id

\* the route without the way back to the supplier
ComputeRouteOneWay(supplier, rs) ==
    LET order == GreedyRoute(supplier, rs)
        route == [k \in 1..Len(order) |-> rs[order[k]].id]
        at    == [k \in 1..Len(route) |-> IdToIndex(rs, route[k])]
        dist  == RetailerDistances(rs)
        sd    == SupplierDistances(supplier, rs)
        legs  == [k \in 1..(Len(route) - 1) |-> dist[at[k]][at[k + 1]]]
    IN  [route |-> route,
         totalDistance |-> sd[at[1]] + SumTo(legs, Len(route) - 1)]

\* optimizeDistributionRoute: route (retailer ids) and totalDistance
ComputeRoute(supplier, rs) ==
    LET order == GreedyRoute(supplier, rs)
        route == [k \in 1..Len(order) |-> rs[order[k]].id]
        at    == [k \in 1..Len(route) |-> IdToIndex(rs, route[k])]
        dist  == RetailerDistances(rs)
        sd    == SupplierDistances(supplier, rs)
        legs  == [k \in 1..(Len(route) - 1) |-> dist[at[k]][at[k + 1]]]
        last  == rs[at[Len(route)]]
    IN  [route |-> route,
         totalDistance |->
             sd[at[1]] + SumTo(legs, Len(route) - 1)
             + calculateDistance(last.latitude, last.longitude,
                                 supplier.latitude, supplier.longitude)]

RECURSIVE RouteText(_)
RouteText(route) ==
    IF route = <<>> THEN "" ELSE ToString(Head(route)) \o "," \o RouteText(Tail(route))

\* optimizeDistributionRoute recording the route before it looks for the
\* transporter
optimizeDistributionRouteRecordedFirst(s, supplierId, transporterId) ==
    LET si == Find(s.suppliers, supplierId)
        ti == Find(s.transporters, transporterId)
    IN  IF Len(s.retailers) < 2
        THEN Result(s, 0, "Error optimizing route: Need at least 2 retailers to optimize routes")
        ELSE IF si = 0
        THEN Result(s, 0, "Error optimizing route: Supplier not found")
        ELSE LET r == ComputeRoute(s.suppliers[si], s.retailers)
                 b == WithBlock(s,
                        <<"Optimized Route ",
                          " Supplier: " \o ToString(s.suppliers[si].id) \o " ",
                          " Retailers: " \o RouteText(r.route) \o " ",
                          " Distance: " \o FormatMilli(r.totalDistance) \o " ",
                          " Transporter: " \o ToString(transporterId) \o " ">>)
             IN  IF ti = 0
                 THEN Result(b.s, 0, "Error optimizing route: Transporter not found")
                 ELSE IF b.ok THEN Result(b.s, 0, "")
                 ELSE Result(b.s, 0, "Error optimizing route: Blockchain is empty")

\* ProductionPlanningSystem::optimizeDistributionRoute, the ids typed being
\* supplierId and transporterId
optimizeDistributionRoute(s, supplierId, transporterId) ==
    LET si == Find(s.suppliers, supplierId)
        ti == Find(s.transporters, transporterId)
    IN  IF Len(s.retailers) < 2
        THEN Result(s, 0, "Error optimizing route: Need at least 2 retailers to optimize routes")
        ELSE IF si = 0
        THEN Result(s, 0, "Error optimizing route: Supplier not found")
        ELSE IF ti = 0
        THEN Result(s, 0, "Error optimizing route: Transporter not found")
        ELSE LET r == ComputeRoute(s.suppliers[si], s.retailers)
                 transportCost ==
                     calculateTransportCost(s.transporters[ti], r.totalDistance)
                 b == WithBlock(s,
                        <<"Optimized Route ",
                          " Supplier: " \o ToString(s.suppliers[si].id) \o " ",
                          " Retailers: " \o RouteText(r.route) \o " ",
                          " Distance: " \o FormatMilli(r.totalDistance) \o " ",
                          " Transporter: " \o ToString(transporterId) \o " ",
                          " Cost: " \o FormatG(transportCost)>>)
             IN  IF b.ok THEN Result(b.s, 0, "")
                 ELSE Result(b.s, 0, "Error optimizing route: Blockchain is empty")

\* optimizeInventory: retailerDemand[retailerId]
RECURSIVE RetailerDemand(_, _, _)
RetailerDemand(txs, productId, retailerId) ==
    IF txs = <<>> THEN 0
    ELSE (IF /\ Head(txs).productId = productId
             /\ Head(txs).status = "Completed"
             /\ Head(txs).retailerId = retailerId
          THEN Head(txs).quantity ELSE 0)
         + RetailerDemand(Tail(txs), productId, retailerId)

\* optimizeInventory: totalDemand, the sum over the retailer ids with history
RECURSIVE TotalDemand(_, _)
TotalDemand(txs, productId) ==
    IF txs = <<>> THEN 0
    ELSE (IF Head(txs).productId = productId /\ Head(txs).status = "Completed"
          THEN Head(txs).quantity ELSE 0)
         + TotalDemand(Tail(txs), productId)

\* optimizeInventory: the allocation of one retailer before the adjustment
Allocation(totalStock, demand, totalDemand, retailerCount) ==
    Max(IF totalDemand > 0 THEN MulRatio(totalStock, demand, totalDemand)
                           ELSE totalStock \div retailerCount,
        10)

\* optimizeInventory: optimalAllocation, by retailer id, after the adjustment
OptimalAllocation(s, pi) ==
    LET productId   == s.products[pi].id
        totalStock  == s.products[pi].stock
        totalDemand == TotalDemand(s.transactions, productId)
        idsOf       == {s.retailers[i].id : i \in 1..Len(s.retailers)}
        first == [id \in idsOf |->
                    Allocation(totalStock,
                               RetailerDemand(s.transactions, productId, id),
                               totalDemand, Len(s.retailers))]
        ids == CHOOSE q \in [1..Cardinality(idsOf) -> idsOf] :
                   \A a, b \in DOMAIN q : a # b => q[a] # q[b]
        totalAllocation == SumTo([k \in DOMAIN ids |-> first[ids[k]]],
                                 Cardinality(idsOf))
    IN  IF totalAllocation > totalStock
        THEN [id \in idsOf |-> MulRatio(first[id], totalStock, totalAllocation)]
        ELSE first

\* optimizeInventory taking 'y' alone for a confirmation
optimizeInventoryLowerCase(s, productId, implement) ==
    LET pi == Find(s.products, productId)
    IN  IF s.products = <<>> \/ s.retailers = <<>>
        THEN Result(s, 0, "Error optimizing inventory: Need products and retailers to optimize inventory")
        ELSE IF pi = 0
        THEN Result(s, 0, "Error optimizing inventory: Product not found")
        ELSE LET product == s.products[pi]
                 alloc == OptimalAllocation(s, pi)
                 n == Len(s.retailers)
                 equalAllocation == product.stock \div n
                 optimized == SumTo([i \in 1..n |-> alloc[s.retailers[i].id]], n)
                 \* holdingCost is a fifth of the price
                 savings == TruncDiv((n * equalAllocation - optimized) * product.price, 5)
             IN  IF implement = "y"
                 THEN LET b == WithBlock(s,
                                <<"Inventory Optimization ",
                                  " Product: " \o ToString(product.id) \o " ",
                                  " Total Stock: " \o ToString(product.stock) \o " ",
                                  " Optimization Savings: " \o FormatG(savings)>>)
                      IN  IF b.ok THEN Result(b.s, 0, "")
                          ELSE Result(b.s, 0, "Error optimizing inventory: Blockchain is empty")
                 ELSE Result(s, 0, "")

\* ProductionPlanningSystem::optimizeInventory, the product id typed and the
\* answer to "Implement this inventory optimization? (y/n)"
optimizeInventory(s, productId, implement) ==
    LET pi == Find(s.products, productId)
    IN  IF s.products = <<>> \/ s.retailers = <<>>
        THEN Result(s, 0, "Error optimizing inventory: Need products and retailers to optimize inventory")
        ELSE IF pi = 0
        THEN Result(s, 0, "Error optimizing inventory: Product not found")
        ELSE LET product == s.products[pi]
                 alloc == OptimalAllocation(s, pi)
                 n == Len(s.retailers)
                 equalAllocation == product.stock \div n
                 optimized == SumTo([i \in 1..n |-> alloc[s.retailers[i].id]], n)
                 \* holdingCost is a fifth of the price
                 savings == TruncDiv((n * equalAllocation - optimized) * product.price, 5)
             IN  IF implement \in {"y", "Y"}
                 THEN LET b == WithBlock(s,
                                <<"Inventory Optimization ",
                                  " Product: " \o ToString(product.id) \o " ",
                                  " Total Stock: " \o ToString(product.stock) \o " ",
                                  " Optimization Savings: " \o FormatG(savings)>>)
                      IN  IF b.ok THEN Result(b.s, 0, "")
                          ELSE Result(b.s, 0, "Error optimizing inventory: Blockchain is empty")
                 ELSE Result(s, 0, "")

(***************************************************************************)
(* Inputs explored                                                         *)
(***************************************************************************)
\* createTransaction(supplierId, retailerId, productId, transporterId,
\* quantity, orderType): calls that pass the lookups, and one call for each
\* lookup that can miss
TransactionCalls ==
    {<<1, 3, 1, 1, q, "Regular">> : q \in {-1, 0, 500, 800, 1001}}
    \cup {<<1, 4, 1, 1, 500, "Regular">>,
          <<1, 4, 1, 1, 800, "Regular">>,
          <<1, 3, 1, 1, 100, "Seasonal">>,
          <<9, 3, 1, 1, 500, "Regular">>,
          <<1, 9, 1, 1, 500, "Regular">>,
          <<1, 3, 9, 1, 500, "Regular">>,
          <<1, 3, 1, 9, 500, "Regular">>,
          <<9, 9, 9, 9, 1001, "Regular">>,
          <<1, 3, 3, 1, 500, "Regular">>,
          <<3, 4, 3, 1, 700, "Regular">>}

\* addNewProduct(name, price, stock)
NewProducts == {<<"Maize", 200, 30>>, <<"Maize", -100, 30>>}

\* addNewSupplier(latitude, longitude, product ids typed)
NewSuppliers == {<<3150, 101700, <<1, 9>>>>, <<3150, 101700, <<3, 0, 1>>>>}

\* addNewRetailer(latitude, longitude, initialCredit, annualCredit)
NewRetailers == {<<3148, 101698, 10000, 100000>>}

\* addNewTransporter(costPerKm, capacity)
NewTransporters == {<<100, 50000>>, <<0, 50000>>}

\* optimizeDistributionRoute: the supplier id and the transporter id typed
RouteInputs == {<<1, 1>>, <<9, 1>>, <<1, 9>>}

\* optimizeInventory: the product id and the answer typed
InventoryInputs == {<<1, "y">>, <<1, "n">>, <<9, "y">>}

\* createTransaction with quantities over the whole range of int, asked of
\* the supplier that Stocked adds: for its free product, and for its other
\* product at and above the quantity that costs the price ceiling
QuantityCalls ==
    {<<3, r, 4, 1, q, "Regular">> :
        r \in {3, 4}, q \in {IntMin, -IntMax, -1, 0, 3, 7, 100, 101, IntMax}}
    \cup {<<3, 3, 5, 1, q, "Regular">> : q \in {100, 101}}

\* beginRetailerTransaction: retailerId, supplierId, productId, quantity and
\* transporterId typed
EntryCalls ==
    {<<4, 3, 5, q, 1>> : q \in {IntMin, -1, 0, 1}}
    \cup {<<9, 3, 5, 1, 1>>, <<4, 9, 5, 0, 1>>, <<4, 3, 1, 0, 1>>}

\* optimizeDistributionRoute asked of the system Stocked gives: the supplier
\* id and the transporter id typed
RouteCalls ==
    {<<u, v>> : u \in {1, 2, 3}, v \in {1, 2}} \cup {<<9, 1>>, <<1, 9>>}

\* createTransaction asked of the system Stocked gives, with arguments that
\* fail several checks at once, that fail one, and that pass them all, and
\* with quantities that are not positive
OrderingCalls ==
    {<<3, 3, 4, 1, q, "Regular">> : q \in {IntMin, -IntMax, -1, 0}} \cup
    {<<9, 9, 9, 9, 501, "Regular">>,
     <<1, 9, 9, 9, 501, "Regular">>,
     <<1, 4, 9, 9, 501, "Regular">>,
     <<1, 4, 5, 9, 501, "Regular">>,
     <<1, 4, 5, 1, 501, "Regular">>,
     <<3, 4, 5, 1, 501, "Regular">>,
     <<3, 4, 5, 1, 500, "Regular">>,
     <<3, 4, 5, 1, 3, "Regular">>,
     <<3, 4, 5, 1, 1, "Regular">>,
     <<3, 3, 5, 1, 100, "Regular">>,
     <<3, 3, 5, 1, 500, "Regular">>}

\* the files found in the working directory when the program starts
StartDisks ==
    {NoDisk,
     [NoDisk EXCEPT !.blockchain = File(<<>>)],
     [NoDisk EXCEPT !.blockchain = File(<<<<"not a block">>>>)],
     [NoDisk EXCEPT !.blockchain =
         File(<<<<"0", "h0", "h9", "T0", "Genesis Block">>,
                <<"1", "h1", "h0">>,
                <<"2", "h2", "h1", "T0", "Added Product ", " Product ID: 1 ">>>>)]}

(***************************************************************************)
(* Actions: one call from the menu each                                    *)
(***************************************************************************)
\* the call name(a) with outcome r; a call that changes nothing is always
\* possible
Call(name, a, r) ==
    /\ op' = name
    /\ args' = a
    /\ UNCHANGED clock
    /\ steps < MaxOps \/ r.s = Cur
    /\ steps' = IF r.s = Cur THEN steps ELSE steps + 1
    /\ ret' = r.ret
    /\ err' = r.err
    /\ Install(r.s)

CreateTransaction ==
    \E c \in TransactionCalls :
        /\ Call("createTransaction", c,
                createTransaction(Cur, c[1], c[2], c[3], c[4], c[5], c[6]))
        /\ UNCHANGED disk

AddNewProduct ==
    \E p \in NewProducts :
        /\ Call("addNewProduct", p, addNewProduct(Cur, p[1], p[2], p[3]))
        /\ UNCHANGED disk

AddNewSupplier ==
    \E p \in NewSuppliers :
        /\ Call("addNewSupplier", p,
                addNewSupplier(Cur, "Agro Three", "Cheras", "Selangor",
                               p[1], p[2], p[3]))
        /\ UNCHANGED disk

AddNewRetailer ==
    \E p \in NewRetailers :
        /\ Call("addNewRetailer", p,
                addNewRetailer(Cur, "MiniMart", "Ampang", p[1], p[2], p[3], p[4]))
        /\ UNCHANGED disk

AddNewTransporter ==
    \E p \in NewTransporters :
        /\ Call("addNewTransporter", p,
                addNewTransporter(Cur, "CityVan", "Van", p[1], p[2]))
        /\ UNCHANGED disk

OptimizeDistributionRoute ==
    \E p \in RouteInputs :
        /\ Call("optimizeDistributionRoute", p,
                optimizeDistributionRoute(Cur, p[1], p[2]))
        /\ UNCHANGED disk

OptimizeInventory ==
    \E p \in InventoryInputs :
        /\ Call("optimizeInventory", p, optimizeInventory(Cur, p[1], p[2]))
        /\ UNCHANGED disk

ResetSystem ==
    /\ Call("resetSystem", <<>>, resetSystem(Cur))
    /\ UNCHANGED disk

SaveData ==
    /\ steps < MaxOps
    /\ steps' = steps + 1
    /\ disk' = saveData(Cur)
    /\ op' = "saveData"
    /\ args' = <<>>
    /\ ret' = 1
    /\ err' = ""
    /\ UNCHANGED <<products, suppliers, retailers, transporters, transactions,
                   chain, nextProductId, nextSupplierId, nextRetailerId,
                   nextTransporterId, nextTransactionId, randState, clock>>

LoadData ==
    /\ Call("loadData", <<>>, loadData(Cur, disk))
    /\ UNCHANGED disk

\* a minute passes
Tick ==
    /\ steps < MaxOps
    /\ steps' = steps + 1
    /\ clock' = clock + 1
    /\ UNCHANGED <<products, suppliers, retailers, transporters, transactions,
                   chain, nextProductId, nextSupplierId, nextRetailerId,
                   nextTransporterId, nextTransactionId, randState, disk,
                   op, args, ret, err>>

\* after main() has seeded rand() and constructed the system s, the working
\* directory holding the files d
Started(s, d) ==
    /\ products = s.products
    /\ suppliers = s.suppliers
    /\ retailers = s.retailers
    /\ transporters = s.transporters
    /\ transactions = s.transactions
    /\ chain = s.chain
    /\ nextProductId = s.nextProductId
    /\ nextSupplierId = s.nextSupplierId
    /\ nextRetailerId = s.nextRetailerId
    /\ nextTransporterId = s.nextTransporterId
    /\ nextTransactionId = s.nextTransactionId
    /\ randState = s.rand
    /\ clock = 0
    /\ disk = d
    /\ steps = 0
    /\ op = "main"
    /\ args = <<>>
    /\ ret = 0
    /\ err = ""

Init ==
    \E s \in {Constructed(0, 0)} : \E d \in StartDisks : Started(s, d)

Next ==
    \/ CreateTransaction
    \/ AddNewProduct
    \/ AddNewSupplier
    \/ AddNewRetailer
    \/ AddNewTransporter
    \/ OptimizeDistributionRoute
    \/ OptimizeInventory
    \/ ResetSystem
    \/ SaveData
    \/ LoadData
    \/ Tick

Spec == Init /\ [][Next]_vars

\* the system from construction on, with no reset and no load
InitPipeline == \E s \in {Constructed(0, 0)} : Started(s, NoDisk)

NextPipeline ==
    \/ CreateTransaction
    \/ AddNewProduct
    \/ AddNewSupplier
    \/ AddNewRetailer
    \/ AddNewTransporter
    \/ OptimizeDistributionRoute
    \/ OptimizeInventory
    \/ Tick

SpecPipeline == InitPipeline /\ [][NextPipeline]_vars

\* the lines of a blockchain.dat: block records, linked or not, with block
\* numbers, timestamps and payloads of any kind, and a line that is no record
LedgerRecords ==
    {<<"0", "h0", p, "T0", "Genesis Block">> : p \in {"h0", "h1"}}
    \cup {<<"5", "h1", p, "T9", "Added Product ">> : p \in {"h0", "h1"}}
    \cup {<<"not a block">>}

LedgerFiles ==
    {File(l) : l \in UNION {[1..n -> LedgerRecords] : n \in 0..MaxLines}}

\* the working directory at the start: a ledger file alone, or the files an
\* earlier run has saved with a line that is no record put into each of them
RestoreDisks ==
    {[NoDisk EXCEPT !.blockchain = f] : f \in LedgerFiles}
    \cup {[f \in DOMAIN NoDisk |->
              LET run   == createTransaction(Constructed(0, 0), 1, 3, 1, 1, 500,
                                             "Regular").s
                  saved == saveData(run)[f].lines
              IN  IF f \in {"blockchain", "nextids"} THEN File(saved)
                  ELSE File(<<saved[1], <<"not a record">>>>
                            \o SubSeq(saved, 2, Len(saved)))]}

\* ProductionPlanningSystem::displayBlockchain: prints the chain and
\* "Blockchain integrity: VALID" (ret 1) or "COMPROMISED" (ret 0)
DisplayBlockchain ==
    /\ op' = "displayBlockchain"
    /\ args' = <<>>
    /\ ret' = IF isChainValid(chain) THEN 1 ELSE 0
    /\ err' = ""
    /\ UNCHANGED <<products, suppliers, retailers, transporters, transactions,
                   chain, nextProductId, nextSupplierId, nextRetailerId,
                   nextTransporterId, nextTransactionId, randState, clock,
                   disk, steps>>

\* the system restored from the files of the working directory
InitRestore ==
    \E s \in {Constructed(0, 0)} : \E d \in RestoreDisks : Started(s, d)

NextRestore ==
    \/ LoadData
    \/ DisplayBlockchain
    \/ AddNewProduct

SpecRestore == InitRestore /\ [][NextRestore]_vars

\* the system s after four entries typed at the menu: a product given away
\* (price 0, so that its cost stays in range for every quantity), a product
\* of which 100 units cost the price ceiling, a supplier carrying both at
\* the coordinates of retailer 3 (no transport cost), and a retailer whose
\* annual balance is below its balance
Stocked(s) ==
    addNewRetailer(
        addNewSupplier(
            addNewProduct(addNewProduct(s, "Seedlings", 0, 100).s,
                          "Durian", 4000, 500).s,
            "Agro Three", "Shah Alam", "Selangor", 3073, 101518,
            <<4, 5, 0>>).s,
        "MiniMart", "Ampang", 3148, 101698, 10000, 0).s

CreateTransactionOfQuantity ==
    \E c \in QuantityCalls :
        /\ Call("createTransaction", c,
                createTransaction(Cur, c[1], c[2], c[3], c[4], c[5], c[6]))
        /\ UNCHANGED disk

\* the pipeline alone, called with quantities of every kind
InitQuantities == \E s \in {Stocked(Constructed(0, 0))} : Started(s, NoDisk)

NextQuantities ==
    \/ CreateTransactionOfQuantity
    \/ Tick

SpecQuantities == InitQuantities /\ [][NextQuantities]_vars

CreateTransactionInOrder ==
    \E c \in OrderingCalls :
        /\ Call("createTransaction", c,
                createTransaction(Cur, c[1], c[2], c[3], c[4], c[5], c[6]))
        /\ UNCHANGED disk

BeginRetailerTransaction ==
    \E c \in EntryCalls :
        /\ Call("beginRetailerTransaction", c,
                beginRetailerTransaction(Cur, c[1], c[2], c[3], c[4], c[5]))
        /\ UNCHANGED disk

\* the pipeline, called as it is and through the menu, with arguments that
\* fail its checks and with quantities of either sign
NextOrdering ==
    \/ CreateTransactionInOrder
    \/ BeginRetailerTransaction
    \/ Tick

SpecOrdering == InitQuantities /\ [][NextOrdering]_vars

OptimizeRouteFrom ==
    \E p \in RouteCalls :
        /\ Call("optimizeDistributionRoute", p,
                optimizeDistributionRoute(Cur, p[1], p[2]))
        /\ UNCHANGED disk

\* the route optimizer over retailers that share coordinates: Stocked adds a
\* fourth retailer where the first one is, addNewRetailer a fifth; and over
\* fewer retailers: loadData finds no file and leaves none
NextRoutes ==
    \/ OptimizeRouteFrom
    \/ AddNewRetailer
    \/ LoadData
    \/ Tick

SpecRoutes == InitQuantities /\ [][NextRoutes]_vars

\* createTransaction for the product that InitInventory adds
CreateTransactionOfHerbs ==
    \E c \in {<<3, r, 4, 1, q, "Regular">> : r \in {2, 3}, q \in {12, 23, 141}} :
        /\ Call("createTransaction", c,
                createTransaction(Cur, c[1], c[2], c[3], c[4], c[5], c[6]))
        /\ UNCHANGED disk

\* optimizeInventory: the product id and the answer typed
OptimizeInventoryOf ==
    \E p \in {4, 1, 9} \X {"y", "Y", "n"} :
        /\ Call("optimizeInventory", p, optimizeInventory(Cur, p[1], p[2]))
        /\ UNCHANGED disk

\* the constructed system after two entries typed at the menu: a product
\* with a stock of 140 and a supplier that carries it
InitInventory ==
    \E s \in {addNewSupplier(addNewProduct(Constructed(0, 0), "Herbs", 100, 140).s,
                              "Agro Three", "Cheras", "Selangor", 3150, 101700,
                              <<4, 0>>).s} :
        Started(s, NoDisk)

NextInventory ==
    \/ CreateTransactionOfHerbs
    \/ OptimizeInventoryOf
    \/ Tick

SpecInventory == InitInventory /\ [][NextInventory]_vars

\* createTransaction asked of the system InitRecovery gives: with the ids
\* the four entries were given, and with one id unknown
CreateTransactionAfterLoad ==
    \E c \in {<<3, 4, 4, 3, q, "Regular">> : q \in {-1, 0, 5, 30, 31}}
              \cup {<<9, 4, 4, 3, 5, "Regular">>, <<3, 9, 4, 3, 5, "Regular">>,
                    <<3, 4, 9, 3, 5, "Regular">>, <<3, 4, 4, 9, 5, "Regular">>} :
        /\ Call("createTransaction", c,
                createTransaction(Cur, c[1], c[2], c[3], c[4], c[5], c[6]))
        /\ UNCHANGED disk

\* the constructed system after a loadData that failed (no blockchain.dat, a
\* blockchain.dat whose first line is no block record, or one whose second
\* line is none) and four entries typed at the menu then: a product, a
\* supplier asked to carry it, a retailer and a transporter
InitRecovery ==
    \E d \in {NoDisk,
              [NoDisk EXCEPT !.blockchain = File(<<<<"not a block">>>>)],
              [NoDisk EXCEPT !.blockchain =
                  File(<<<<"0", "h0", "h0", "T0", "Genesis Block">>,
                         <<"not a block">>>>)]} :
        \E l \in {loadData(Constructed(0, 0), d).s} :
        \E p \in {addNewProduct(l, "Maize", 200, 30).s} :
        \E u \in {addNewSupplier(p, "Agro Three", "Cheras", "Selangor", 3150, 101700, <<4, 0>>).s} :
        \E r \in {addNewRetailer(u, "MiniMart", "Ampang", 3148, 101698, 10000, 100000).s} :
        \E s \in {addNewTransporter(r, "CityVan", "Van", 100, 50000).s} :
            Started(s, d)

NextRecovery ==
    \/ CreateTransactionAfterLoad
    \/ AddNewSupplier
    \/ ResetSystem
    \/ SaveData
    \/ LoadData
    \/ Tick

SpecRecovery == InitRecovery /\ [][NextRecovery]_vars

(***************************************************************************)
(* Properties                                                              *)
(***************************************************************************)
Last(seq) == seq[Len(seq)]

\* the condition of steps 1 to 3 on the arguments c of a call, read from the
\* collections as they are before the call
PassesChecks(c) ==
    /\ \E i \in 1..Len(suppliers) : suppliers[i].id = c[1]
    /\ \E i \in 1..Len(retailers) : retailers[i].id = c[2]
    /\ \E i \in 1..Len(products) : products[i].id = c[3]
    /\ \E i \in 1..Len(transporters) : transporters[i].id = c[4]
    /\ \E k \in 1..Len(suppliers[Find(suppliers, c[1])].productIds) :
           suppliers[Find(suppliers, c[1])].productIds[k] = c[3]
    /\ products[Find(products, c[3])].stock >= c[5]

\* the lookups of the call c find their entities and the supplier carries
\* the product, read from the collections as they are before the call
PassesLookups(c) ==
    /\ \E i \in 1..Len(suppliers) : suppliers[i].id = c[1]
    /\ \E i \in 1..Len(retailers) : retailers[i].id = c[2]
    /\ \E i \in 1..Len(products) : products[i].id = c[3]
    /\ \E i \in 1..Len(transporters) : transporters[i].id = c[4]
    /\ \E k \in 1..Len(suppliers[Find(suppliers, c[1])].productIds) :
           suppliers[Find(suppliers, c[1])].productIds[k] = c[3]

\* the total cost of the call c: price times quantity plus the transport
\* cost of the distance from the supplier to the retailer
CostOf(c) ==
    LET supplier    == suppliers[Find(suppliers, c[1])]
        retailer    == retailers[Find(retailers, c[2])]
        product     == products[Find(products, c[3])]
        transporter == transporters[Find(transporters, c[4])]
    IN  product.price * c[5]
        + calculateTransportCost(transporter,
              calculateDistance(supplier.latitude, supplier.longitude,
                                retailer.latitude, retailer.longitude))

\* the step is the call createTransaction(args'[1], ..., args'[6])
CreateTransactionStep == op' = "createTransaction" /\ UNCHANGED clock

\* the step has stored one more transaction
StoresOne == Len(transactions') = Len(transactions) + 1

\* the step has appended exactly one block, whose payload starts with prefix
AppendsOne(prefix) ==
    /\ Len(chain') = Len(chain) + 1
    /\ SubSeq(chain', 1, Len(chain)) = chain
    /\ Len(Last(chain').data) >= 2
    /\ Last(chain').data[1] = prefix \o " "

TransactionPrefixes ==
    {"Completed Transaction ", "Failed Transaction ", "Failed Transaction (Credit) "}

IsTransactionBlock(b) == b.data[1] \in TransactionPrefixes

\* C1: from a freshly constructed ledger on, whatever catalog adds,
\* transactions, route records and inventory records have appended, every
\* block after the genesis block carries as previousHash the currentHash of
\* the block before it, and isChainValid() returns true.
C1_ChainLinkage ==
    /\ \A i \in 2..Len(chain) : chain[i].previousHash = chain[i - 1].currentHash
    /\ isChainValid(chain)

C1_Witness ==
    /\ Len(chain) >= 13
    /\ \E i \in 1..Len(chain) : chain[i].data[1] = "Completed Transaction "
    /\ \E i \in 1..Len(chain) : chain[i].data[1] = "Optimized Route "

\* C2: a createTransaction call that fails at step 1, 2 or 3 returns -1 and
\* stores no transaction, appends no block, leaves nextTransactionId, every
\* stock and every retailer balance as they were.
C2_EarlyFailureChangesNothing ==
    [][(CreateTransactionStep /\ ~PassesChecks(args'))
          => /\ ret' = -1
             /\ UNCHANGED <<transactions, chain, nextTransactionId,
                            products, retailers>>]_vars

C2_Witness ==
    /\ op = "createTransaction"
    /\ ret = -1
    /\ err = "Error creating transaction: Insufficient product stock"
    /\ Len(transactions) = 1
    /\ nextTransactionId = 2

\* C3: the first createTransaction call that constructs a Transaction
\* returns 1 and each later one returns 1 more than the one before it,
\* whatever the outcome (Completed, Failed by policy, Failed by credit); a
\* call that fails at steps 1 to 3 returns -1 and consumes no id.
C3_IdMonotonic ==
    /\ transactions = <<>> /\ nextTransactionId = 1
    /\ [][/\ CreateTransactionStep
               => IF PassesChecks(args')
                  THEN /\ StoresOne
                       /\ ret' = Len(transactions) + 1
                       /\ Last(transactions').id = ret'
                       /\ nextTransactionId' = ret' + 1
                  ELSE /\ ret' = -1
                       /\ UNCHANGED <<transactions, nextTransactionId>>
          /\ ~CreateTransactionStep
             => UNCHANGED <<transactions, nextTransactionId>>]_vars

C3_Witness ==
    /\ op = "createTransaction"
    /\ ret = 2
    /\ Len(transactions) = 2
    /\ transactions[1].status = "Failed"
    /\ transactions[2].status = "Completed"

\* C4: a createTransaction call that ends Completed with total cost A lowers
\* the retailer's creditBalance and annualCreditBalance by exactly A each;
\* a call that ends Failed or fails at steps 1 to 3 leaves all balances as
\* they were; no call changes a balance of another retailer.
C4_CreditAtomicity ==
    [][LET c == args' IN
          CreateTransactionStep
          => IF StoresOne /\ Last(transactions').status = "Completed"
             THEN LET ri == Find(retailers, c[2])
                      A  == Last(transactions').totalCost
                  IN  /\ A = CostOf(c)
                      /\ Len(retailers') = Len(retailers)
                      /\ retailers'[ri].creditBalance
                            = retailers[ri].creditBalance - A
                      /\ retailers'[ri].annualCreditBalance
                            = retailers[ri].annualCreditBalance - A
                      /\ \A j \in 1..Len(retailers) :
                            j # ri => retailers'[j] = retailers[j]
             ELSE retailers' = retailers]_vars

C4_Witness ==
    /\ op = "createTransaction"
    /\ transactions # <<>>
    /\ Last(transactions).status = "Completed"
    /\ Last(transactions).totalCost > 0
    /\ retailers[3].creditBalance = 500000 - Last(transactions).totalCost
    /\ retailers[3].annualCreditBalance = 5000000 - Last(transactions).totalCost

\* C5: a createTransaction call changes a stock only when it ends
\* Completed, and then only the stock of the requested product, by exactly
\* minus the quantity; a call that ends Failed or fails at steps 1 to 3
\* leaves every stock as it was.
C5_StockConservation ==
    [][LET c == args' IN
          CreateTransactionStep
          => IF StoresOne /\ Last(transactions').status = "Completed"
             THEN LET pi == Find(products, c[3])
                  IN  products' = [products EXCEPT ![pi].stock = @ - c[5]]
             ELSE products' = products]_vars

C5_Witness ==
    /\ op = "createTransaction"
    /\ transactions # <<>>
    /\ Last(transactions).status = "Completed"
    /\ Last(transactions).quantity = 500
    /\ products[1].stock = 500
    /\ products[2].stock = 800

\* C6: the transaction blocks of the ledger correspond one to one, in the
\* same order, to the stored transactions; the block of a transaction starts
\* with "Completed Transaction" exactly when its status is Completed, with
\* "Failed Transaction" exactly when a contract rejected it and with
\* "Failed Transaction (Credit)" exactly when the credit check rejected it.
C6_LedgerReflectsPipeline ==
    LET blocks == SelectSeq(chain, IsTransactionBlock)
    IN  /\ Len(blocks) = Len(transactions)
        /\ \A k \in 1..Len(transactions) :
              LET t == transactions[k]
                  d == blocks[k].data
              IN  /\ d = Prefixed(SubSeq(d[1], 1, Len(d[1]) - 1),
                                  TransactionGetBlockData(t))
                  /\ d[2] = " Transaction ID: " \o ToString(t.id) \o " "
                  /\ d[1] = "Completed Transaction " <=> t.status = "Completed"
                  /\ d[1] = "Failed Transaction "
                        <=> (t.status = "Failed" /\ t.totalCost > PriceCeiling)
                  /\ d[1] = "Failed Transaction (Credit) "
                        <=> (t.status = "Failed" /\ t.totalCost <= PriceCeiling)

C6_Witness ==
    /\ Len(transactions) = 2
    /\ transactions[1].status = "Completed"
    /\ transactions[2].status = "Failed"
    /\ chain[Len(chain) - 1].data[1] = "Completed Transaction "
    /\ chain[Len(chain)].data[1] = "Failed Transaction "

\* C7: when steps 1 to 3 pass and a contract rejects the costed transaction,
\* createTransaction stores it with status Failed, appends exactly one block
\* whose payload starts with "Failed Transaction | ", returns the new
\* transaction id and leaves stocks and balances untouched.
C7_PolicyRejection ==
    [][LET c == args' IN
          (/\ CreateTransactionStep
           /\ PassesChecks(c)
           /\ CostOf(c) > PriceCeiling)
          => /\ StoresOne
             /\ SubSeq(transactions', 1, Len(transactions)) = transactions
             /\ Last(transactions').status = "Failed"
             /\ Last(transactions').id = nextTransactionId
             /\ ret' = nextTransactionId
             /\ AppendsOne("Failed Transaction")
             /\ UNCHANGED <<products, retailers>>]_vars

C7_Witness ==
    /\ op = "createTransaction"
    /\ ret = 1
    /\ Len(transactions) = 1
    /\ transactions[1].status = "Failed"
    /\ transactions[1].totalCost > PriceCeiling
    /\ Last(chain).data[1] = "Failed Transaction "

\* C8: when steps 1 to 3 pass, every contract approves and the retailer's
\* creditBalance is less than the total cost, createTransaction stores the
\* transaction with status Failed, appends exactly one block whose payload
\* starts with "Failed Transaction (Credit) | ", returns the new transaction
\* id and changes neither balances nor stocks.
C8_CreditFailure ==
    [][LET c == args' IN
          (/\ CreateTransactionStep
           /\ PassesChecks(c)
           /\ CostOf(c) <= PriceCeiling
           /\ retailers[Find(retailers, c[2])].creditBalance < CostOf(c))
          => /\ StoresOne
             /\ SubSeq(transactions', 1, Len(transactions)) = transactions
             /\ Last(transactions').status = "Failed"
             /\ Last(transactions').id = nextTransactionId
             /\ ret' = nextTransactionId
             /\ AppendsOne("Failed Transaction (Credit)")
             /\ UNCHANGED <<products, retailers>>]_vars

C8_Witness ==
    /\ op = "createTransaction"
    /\ ret = 1
    /\ Len(transactions) = 1
    /\ transactions[1].status = "Failed"
    /\ transactions[1].totalCost <= PriceCeiling
    /\ Last(chain).data[1] = "Failed Transaction (Credit) "
    /\ retailers[4].creditBalance = 10000

\* C9: the ledger holds at least one block in every reachable state: after
\* construction, after resetSystem and after every load of blockchain.dat,
\* whatever the file holds and whatever the load returns.
C9_LedgerNonEmpty == Len(chain) >= 1

\* C10: every stored transaction has status Completed or Failed, never
\* Pending.
C10_NoPendingAtRest ==
    \A k \in 1..Len(transactions) :
        /\ transactions[k].status \in {"Completed", "Failed"}
        /\ transactions[k].status # "Pending"

C10_Witness ==
    /\ Len(transactions) = 2
    /\ transactions[1].status = "Completed"
    /\ transactions[2].status = "Failed"
    /\ transactions[2].totalCost <= PriceCeiling

\* C11: if every product starts with a stock of 0 or more, then after any
\* sequence of createTransaction calls, whatever their quantities (positive,
\* zero or negative), every product's stock is 0 or more.
C11_StockNonNegative ==
    \A i \in 1..Len(products) : products[i].stock >= 0

\* C12: if a retailer's creditBalance and annualCreditBalance both start at
\* 0 or more, then after any sequence of createTransaction calls both are
\* 0 or more.
C12_BalancesNonNegative ==
    \A i \in 1..Len(retailers) :
        /\ retailers[i].creditBalance >= 0
        /\ retailers[i].annualCreditBalance >= 0

C14_BlockNumbers ==
    /\ [](\A i \in 1..Len(chain) : chain[i].blockNumber = i - 1)
    /\ [][chain' # chain
            => /\ Len(chain') = Len(chain) + 1
               /\ SubSeq(chain', 1, Len(chain)) = chain
               /\ Last(chain').blockNumber = Last(chain).blockNumber + 1]_vars

C14_Witness ==
    /\ Len(chain) = 13
    /\ chain[1].blockNumber = 0
    /\ chain[12].data[1] = "Completed Transaction "
    /\ chain[13].data[1] = "Inventory Optimization "
    /\ chain[13].blockNumber = 12

\* C15: a freshly constructed ledger has exactly one block, numbered 0, and
\* so has the ledger after loadFromFile has read an empty file, whatever the
\* chain held before the load.
C15_GenesisInvariant ==
    /\ [](LET fresh == Cleared(randState, clock).chain
          IN  Len(fresh) = 1 /\ fresh[1].blockNumber = 0)
    /\ [][(op' = "loadData" /\ disk.blockchain = File(<<>>))
            => /\ ret' = 1
               /\ Len(chain') = 1
               /\ chain'[1].blockNumber = 0]_vars

C15_Witness ==
    /\ op = "loadData"
    /\ disk.blockchain = File(<<>>)
    /\ steps = 2
    /\ products = <<>>
    /\ Len(chain) = 1
    /\ chain[1].data = <<"Genesis Block">>

\* C16: for any supplier and any two or more retailers, retailers at the
\* same coordinates included, the route optimizeDistributionRoute records
\* holds every retailer id exactly once, and its total distance is the
\* distance from the supplier to the first stop, plus the distances between
\* consecutive stops, plus the distance from the last stop to the supplier.
C16_RouteShape ==
    [][(op' = "optimizeDistributionRoute" /\ chain' # chain)
          => LET supplier == suppliers[Find(suppliers, args'[1])]
                 n == Len(retailers)
                 Distance(a, b) ==
                     calculateDistance(a.latitude, a.longitude,
                                       b.latitude, b.longitude)
                 recorded == Last(chain').data
             IN  /\ n >= 2
                 /\ \E stop \in [1..n -> 1..n] :
                       /\ \A i \in 1..n : \E k \in 1..n : stop[k] = i
                       /\ \A k, l \in 1..n :
                             k # l => retailers[stop[k]].id # retailers[stop[l]].id
                       /\ recorded[3]
                             = " Retailers: "
                               \o RouteText([k \in 1..n |-> retailers[stop[k]].id])
                               \o " "
                       /\ recorded[4]
                             = " Distance: "
                               \o FormatMilli(
                                     Distance(supplier, retailers[stop[1]])
                                     + SumTo([k \in 1..(n - 1) |->
                                                Distance(retailers[stop[k]],
                                                         retailers[stop[k + 1]])],
                                             n - 1)
                                     + Distance(retailers[stop[n]], supplier))
                               \o " "]_vars

C16_Witness ==
    /\ op = "optimizeDistributionRoute"
    /\ Len(retailers) = 4
    /\ retailers[4].latitude = retailers[1].latitude
    /\ retailers[4].longitude = retailers[1].longitude
    /\ Last(chain).data[1] = "Optimized Route "
    /\ Last(chain).data[3] = " Retailers: 1,4,2,3, "

\* C17: in optimizeInventory, before the adjustment, the demand of a
\* retailer is the sum of the quantities of the stored transactions that are
\* Completed, for the selected product and for that retailer; when the total
\* demand is above 0 the allocation of each retailer is the larger of 10 and
\* floor(stock * demand / total demand), otherwise the larger of 10 and
\* stock div number of retailers.  Stated for stocks and quantities of 0 or
\* more.
C17_AllocationFormula ==
    \A pi \in 1..Len(products) :
        LET productId == products[pi].id
            stock == products[pi].stock
            Bought(r) ==
                SelectSeq(transactions,
                          LAMBDA t : /\ t.status = "Completed"
                                     /\ t.productId = productId
                                     /\ r \in {0, t.retailerId})
            Sum(txs) == SumTo([k \in 1..Len(txs) |-> txs[k].quantity], Len(txs))
        IN  (/\ stock >= 0
             /\ \A k \in 1..Len(transactions) : transactions[k].quantity >= 0)
            => \A i \in 1..Len(retailers) :
                  LET r == retailers[i].id
                  IN  /\ RetailerDemand(transactions, productId, r) = Sum(Bought(r))
                      /\ TotalDemand(transactions, productId) = Sum(Bought(0))
                      /\ Allocation(stock,
                                    RetailerDemand(transactions, productId, r),
                                    TotalDemand(transactions, productId),
                                    Len(retailers))
                            = Max(10, IF Sum(Bought(0)) > 0
                                      THEN (stock * Sum(Bought(r))) \div Sum(Bought(0))
                                      ELSE stock \div Len(retailers))

\* C18: a costed transaction passes the policy stage exactly when every
\* registered contract approves it; under the price ceiling of 4000 that the
\* constructor registers it is rejected exactly when its total cost is above
\* 4000, so a total cost of exactly 4000 is accepted; and the evaluation
\* changes neither the transaction nor any entity: a rejected transaction is
\* stored as it was costed, with all products, suppliers, retailers and
\* transporters as they were.
C18_PolicyGate ==
    [][LET c == args' IN
          (CreateTransactionStep /\ PassesChecks(c))
          => LET stored == Last(transactions')
                 rejected == /\ stored.status = "Failed"
                             /\ Last(chain').data[1] = "Failed Transaction "
             IN  /\ StoresOne
                 /\ stored.totalCost = CostOf(c)
                 /\ stored.quantity = c[5]
                 /\ stored.productCost
                       = products[Find(products, c[3])].price * c[5]
                 /\ rejected <=> CostOf(c) > PriceCeiling
                 /\ rejected
                       <=> ~(\A k \in 1..Len(contracts) :
                                validate(contracts[k], stored))
                 /\ (CostOf(c) = PriceCeiling) => ~rejected
                 /\ rejected
                       => UNCHANGED <<products, suppliers, retailers,
                                      transporters>>]_vars

C18_Witness ==
    /\ op = "createTransaction"
    /\ Len(transactions) = 2
    /\ transactions[1].totalCost = PriceCeiling + 4000
    /\ transactions[1].status = "Failed"
    /\ transactions[2].totalCost = PriceCeiling
    /\ transactions[2].status = "Completed"

\* C19: restoring persisted data skips the lines that are no records instead
\* of giving up: for blocks, products, suppliers, retailers, transporters
\* and transactions alike, after loadData every well-formed line of the file
\* is loaded, in the order of the file, whatever lines stand before or after
\* it.
C19_MalformedLinesSkipped ==
    (op = "loadData" /\ disk.blockchain.exists)
    => LET blocks == SelectSeq(disk.blockchain.lines,
                               LAMBDA l : BlockDeserialize(l, 0, 0).ok)
           Loaded(lines, kind) ==
               LET Read(l) ==
                       CASE kind = "products" -> ProductDeserialize(l)
                         [] kind = "suppliers" -> SupplierDeserialize(l)
                         [] kind = "retailers" -> RetailerDeserialize(l)
                         [] kind = "transporters" -> TransporterDeserialize(l)
                         [] kind = "transactions" -> TransactionDeserialize(l, 0)
                   good == SelectSeq(lines, LAMBDA l : Read(l).ok)
               IN  [k \in 1..Len(good) |-> Read(good[k]).value]
       IN  /\ blocks # <<>>
              => /\ Len(chain) = Len(blocks)
                 /\ \A k \in 1..Len(blocks) :
                       /\ chain[k].blockNumber = stoi(blocks[k][1]).value
                       /\ chain[k].currentHash = blocks[k][2]
                       /\ chain[k].previousHash = blocks[k][3]
           /\ products = Loaded(disk.products.lines, "products")
           /\ suppliers = Loaded(disk.suppliers.lines, "suppliers")
           /\ retailers = Loaded(disk.retailers.lines, "retailers")
           /\ transporters = Loaded(disk.transporters.lines, "transporters")
           /\ transactions = Loaded(disk.transactions.lines, "transactions")

\* C20: across catalog adds, createTransaction calls and optimizer records,
\* with no reset and no load, the ledger and the transaction store only
\* grow, and every block and every transaction already stored keeps all its
\* fields: the ledger and the store before a step are prefixes of the ledger
\* and the store after it.
C20_AppendOnly ==
    [][/\ Len(chain') >= Len(chain)
       /\ SubSeq(chain', 1, Len(chain)) = chain
       /\ Len(transactions') >= Len(transactions)
       /\ SubSeq(transactions', 1, Len(transactions)) = transactions]_vars

C20_Witness ==
    /\ Len(transactions) = 2
    /\ transactions[1].status = "Completed"
    /\ transactions[2].id = 2
    /\ Len(chain) = 13
    /\ chain[12].data[1] = "Completed Transaction "

\* C21: createTransaction runs its checks in the order supplier exists,
\* retailer exists, product exists, transporter exists, supplier carries the
\* product, stock >= quantity, policy, credit, and its outcome is that of
\* the first check that fails: a request that lacks stock and would exceed
\* the price ceiling is not recorded at all, and a request that exceeds both
\* the price ceiling and the retailer's credit is recorded as "Failed
\* Transaction", never as "Failed Transaction (Credit)".
C21_CheckOrder ==
    [][LET c == args'
           Known(entities, id) == \E i \in 1..Len(entities) : entities[i].id = id
           Thrown(what) ==
               /\ ret' = -1
               /\ err' = "Error creating transaction: " \o what
               /\ UNCHANGED <<transactions, chain, nextTransactionId,
                              products, retailers>>
           Recorded(prefix, status) ==
               /\ ret' = nextTransactionId
               /\ StoresOne
               /\ Last(transactions').status = status
               /\ AppendsOne(prefix)
       IN  CreateTransactionStep
           => IF ~Known(suppliers, c[1]) THEN Thrown("Supplier ID not found")
              ELSE IF ~Known(retailers, c[2]) THEN Thrown("Retailer ID not found")
              ELSE IF ~Known(products, c[3]) THEN Thrown("Product ID not found")
              ELSE IF ~Known(transporters, c[4])
                   THEN Thrown("Transporter ID not found")
              ELSE IF \A k \in 1..Len(suppliers[Find(suppliers, c[1])].productIds) :
                         suppliers[Find(suppliers, c[1])].productIds[k] # c[3]
                   THEN Thrown("This supplier does not supply this product")
              ELSE IF products[Find(products, c[3])].stock < c[5]
                   THEN Thrown("Insufficient product stock")
              ELSE IF CostOf(c) > PriceCeiling
                   THEN Recorded("Failed Transaction", "Failed")
              ELSE IF retailers[Find(retailers, c[2])].creditBalance < CostOf(c)
                   THEN Recorded("Failed Transaction (Credit)", "Failed")
              ELSE Recorded("Completed Transaction", "Completed")]_vars

C21_Witness ==
    /\ op = "createTransaction"
    /\ args = <<3, 4, 5, 1, 501, "Regular">>
    /\ ret = -1
    /\ err = "Error creating transaction: Insufficient product stock"
    /\ Len(transactions) = 1
    /\ transactions[1].quantity = 500
    /\ transactions[1].totalCost > PriceCeiling
    /\ transactions[1].totalCost > retailers[4].creditBalance
    /\ Last(chain).data[1] = "Failed Transaction "

C23_GreedyFirstWins ==
    [][(op' = "optimizeDistributionRoute" /\ chain' # chain)
          => LET supplier == suppliers[Find(suppliers, args'[1])]
                 n == Len(retailers)
                 Distance(a, b) ==
                     calculateDistance(a.latitude, a.longitude,
                                       b.latitude, b.longitude)
             IN  \E stop \in [1..n -> 1..n] :
                    LET Visited(k) == {stop[m] : m \in 1..(k - 1)}
                        From(k, j) ==
                            IF k = 1 THEN Distance(supplier, retailers[j])
                            ELSE Distance(retailers[stop[k - 1]], retailers[j])
                    IN  /\ \A k \in 1..n : stop[k] \notin Visited(k)
                        /\ \A k \in 1..n : \A j \in (1..n) \ Visited(k) :
                              \/ From(k, stop[k]) < From(k, j)
                              \/ From(k, stop[k]) = From(k, j) /\ stop[k] <= j
                        /\ Last(chain').data[3]
                              = " Retailers: "
                                \o RouteText([k \in 1..n |-> retailers[stop[k]].id])
                                \o " "]_vars

C23_Witness ==
    /\ op = "optimizeDistributionRoute"
    /\ args[1] = 3
    /\ Len(retailers) = 5
    /\ \A i \in {4, 5} : /\ retailers[i].latitude = retailers[1].latitude
                          /\ retailers[i].longitude = retailers[1].longitude
    /\ Last(chain).data[1] = "Optimized Route "
    /\ Last(chain).data[3] = " Retailers: 3,2,1,4,5, "

\* C24: with fewer than 2 retailers, or with an unknown supplier id or an
\* unknown transporter id, optimizeDistributionRoute ends in an error and
\* appends no block; in every case it leaves all products, suppliers,
\* retailers, transporters and transactions unchanged; and it appends
\* exactly one "Optimized Route" block only when the supplier and the
\* transporter are both found.
C24_RouteFrame ==
    [][(op' = "optimizeDistributionRoute" /\ UNCHANGED clock)
          => LET few == Len(retailers) < 2
                 noSupplier == \A i \in 1..Len(suppliers) : suppliers[i].id # args'[1]
                 noTransporter ==
                     \A i \in 1..Len(transporters) : transporters[i].id # args'[2]
             IN  /\ UNCHANGED <<products, suppliers, retailers, transporters,
                                transactions>>
                 /\ (few \/ noSupplier \/ noTransporter)
                       => /\ chain' = chain
                          /\ err' = "Error optimizing route: "
                                    \o (IF few
                                        THEN "Need at least 2 retailers to optimize routes"
                                        ELSE IF noSupplier THEN "Supplier not found"
                                        ELSE "Transporter not found")
                 /\ chain' # chain
                       => /\ ~few /\ ~noSupplier /\ ~noTransporter
                          /\ err' = ""
                          /\ AppendsOne("Optimized Route")
                 /\ (~few /\ ~noSupplier /\ ~noTransporter /\ chain # <<>>)
                       => AppendsOne("Optimized Route")]_vars

C24_Witness ==
    /\ op = "optimizeDistributionRoute"
    /\ args = <<1, 1>>
    /\ Len(retailers) = 1
    /\ err = "Error optimizing route: Need at least 2 retailers to optimize routes"
    /\ Len(chain) = 16
    /\ Last(chain).data[1] = "Added Retailer "

\* C25: the inventory allocator is advisory: optimizeInventory never changes
\* a product's stock, a retailer's balance or the transaction store, and it
\* appends exactly one "Inventory Optimization" block if and only if the
\* operator confirms with 'y' or 'Y'; with any other answer, or with an
\* unknown product id, the ledger is unchanged.
C25_AllocatorAdvisory ==
    [][(op' = "optimizeInventory" /\ UNCHANGED clock)
          => LET known == \E i \in 1..Len(products) : products[i].id = args'[1]
                 confirmed == args'[2] = "y" \/ args'[2] = "Y"
             IN  /\ UNCHANGED <<products, suppliers, retailers, transporters,
                                transactions, nextTransactionId>>
                 /\ IF known /\ confirmed
                    THEN /\ AppendsOne("Inventory Optimization")
                         /\ Last(chain').data[2]
                               = " Product: " \o ToString(args'[1]) \o " "
                    ELSE chain' = chain
                 /\ ~known => err' = "Error optimizing inventory: Product not found"]_vars

C25_Witness ==
    /\ op = "optimizeInventory"
    /\ args = <<4, "Y">>
    /\ Len(transactions) = 1
    /\ transactions[1].status = "Completed"
    /\ products[4].stock = 128
    /\ Last(chain).data[1] = "Inventory Optimization "
    /\ Last(chain).data[3] = " Total Stock: 128 "

\* C26: when the sum of the floored allocations exceeds the product's stock,
\* every allocation is replaced by floor(allocation * stock / sum), after
\* which the sum of all allocations is <= stock; when the sum does not
\* exceed the stock the allocations are left as they are and every
\* retailer's allocation is >= 10.  Stated for the allocations
\* optimizeInventory computes for each product in the state it is called in.
C26_AllocationClamping ==
    \A pi \in 1..Len(products) :
        LET stock == products[pi].stock
            n == Len(retailers)
            before == [i \in 1..n |->
                         Allocation(stock,
                                    RetailerDemand(transactions, products[pi].id,
                                                   retailers[i].id),
                                    TotalDemand(transactions, products[pi].id), n)]
            sum == SumTo(before, n)
            after == [i \in 1..n |->
                         OptimalAllocation(Cur, pi)[retailers[i].id]]
        IN  IF sum > stock
            THEN /\ \A i \in 1..n : after[i] = (before[i] * stock) \div sum
                 /\ SumTo(after, n) <= stock
            ELSE /\ after = before
                 /\ \A i \in 1..n : after[i] >= 10

\* C28: ledger persistence round trip: for every ledger reachable through
\* catalog adds, createTransaction calls and optimizer records, saveToFile
\* followed by loadFromFile yields the same sequence of blocks, each with
\* the same blockNumber, currentHash, previousHash, timestamp and payload,
\* and the same isChainValid() result.
C28_LedgerRoundTrip ==
    LET l == loadFromFile(chain, saveToFile(chain), randState, clock)
    IN  /\ l.ok
        /\ Len(l.chain) = Len(chain)
        /\ \A i \in 1..Len(chain) :
              /\ l.chain[i].blockNumber = chain[i].blockNumber
              /\ l.chain[i].currentHash = chain[i].currentHash
              /\ l.chain[i].previousHash = chain[i].previousHash
              /\ l.chain[i].timestamp = chain[i].timestamp
              /\ l.chain[i].data = chain[i].data
        /\ isChainValid(l.chain) = isChainValid(chain)

\* C30: a loadData call that returns false (ledger file missing, or ledger
\* file with a malformed line) leaves the in-memory state as it was before
\* the call: the products, suppliers, retailers, transporters, transactions,
\* id counters and ledger are unchanged.
C30_FailedLoadKeepsState ==
    [][(op' = "loadData" /\ ret' = 0 /\ UNCHANGED clock)
          => UNCHANGED <<products, suppliers, retailers, transporters,
                         transactions, chain, nextProductId, nextSupplierId,
                         nextRetailerId, nextTransporterId,
                         nextTransactionId>>]_vars

\* C27: resetSystem restores the freshly constructed state from any
\* reachable state: afterwards products, suppliers, retailers and
\* transporters are exactly the sample data with their initial stock and
\* balances, the transaction store is empty, nextTransactionId is 1 and the
\* other id counters equal their post-construction values, and the ledger
\* is a new genesis block followed by exactly the sample-data blocks, with
\* isChainValid() true.
C27_ResetRestoresConstructed ==
    [][(op' = "resetSystem" /\ UNCHANGED clock)
          => /\ products' = Constructed(0, 0).products
             /\ [i \in 1..Len(products') |-> products'[i].stock] = <<1000, 800, 600>>
             /\ suppliers' = Constructed(0, 0).suppliers
             /\ retailers' = Constructed(0, 0).retailers
             /\ transporters' = Constructed(0, 0).transporters
             /\ transactions' = <<>>
             /\ nextTransactionId' = 1
             /\ <<nextProductId', nextSupplierId', nextRetailerId',
                  nextTransporterId'>> = <<4, 3, 4, 3>>
             /\ Len(chain') = 11
             /\ chain'[1].data = <<"Genesis Block">>
             /\ \A i \in 1..Len(chain') :
                   /\ chain'[i].blockNumber = i - 1
                   /\ chain'[i].data = Constructed(0, 0).chain[i].data
                   /\ chain'[i].timestamp = getCurrentTimestamp(clock)
             /\ isChainValid(chain')]_vars

C27_Witness ==
    /\ op = "resetSystem"
    /\ steps = 1
    /\ disk.blockchain = File(<<<<"not a block">>>>)
    /\ Len(products) = 3
    /\ Len(chain) = 11
    /\ nextProductId = 4
    /\ nextTransactionId = 1

\* C29: in every reachable state (including states reached after a loadData
\* call that failed), a createTransaction call that returns -1 has left the
\* transaction store, every product's stock, every retailer's balances,
\* nextTransactionId and the ledger unchanged; a change to stock, credit or
\* the transaction store always comes with a ledger block and a returned id.
C29_FailureChangesNothing ==
    [][(op' = "createTransaction" /\ UNCHANGED clock)
          => /\ ret' = -1
                   => UNCHANGED <<transactions, products, retailers,
                                  nextTransactionId, chain>>
             /\ (transactions' # transactions \/ products' # products
                    \/ retailers' # retailers)
                   => /\ Len(chain') = Len(chain) + 1
                      /\ SubSeq(chain', 1, Len(chain)) = chain
                      /\ ret' = nextTransactionId
                      /\ ret' # -1]_vars

C29_Witness ==
    /\ op = "createTransaction"
    /\ args = <<3, 4, 4, 3, 5, "Regular">>
    /\ ret = -1
    /\ err = "Error creating transaction: This supplier does not supply this product"
    /\ chain = <<>>
    /\ Len(products) = 1 /\ products[1].id = 4 /\ products[1].stock = 30
    /\ Len(suppliers) = 1 /\ suppliers[1].id = 3
    /\ Len(retailers) = 1 /\ retailers[1].id = 4
    /\ Len(transporters) = 1 /\ transporters[1].id = 3
    /\ transactions = <<>>

====
